---- MODULE Spec2Model ----
(***************************************************************************)
(* Data layer of the terminal trading dashboard:                           *)
(*   - RateLimiter   (src/src/openapi/rate_limiter.rs)                     *)
(*   - debounced single-symbol refresh (src/src/system.rs)                 *)
(*   - KlineStore    (src/src/kline.rs)                                    *)
(*   - StockStore    (src/src/data/stocks.rs, src/src/data/stock.rs)       *)
(*   - Watchlist     (src/src/data/watchlist.rs)                           *)
(* Each component has its own specification over the shared variables.     *)
(***************************************************************************)
EXTENDS Integers, Sequences, FiniteSets, TLC

VARIABLES
    now,              \* tokio::time::Instant::now(), in clock ticks
    semaphore,        \* RateLimiter.semaphore: available permits
    last_refill,      \* RateLimiter.last_refill (value inside the mutex)
    refill_lock,      \* holder of the last_refill mutex, 0 when free
    caller,           \* per caller: position in acquire()/execute() and locals
    acquired_at,      \* history: number of acquire() returns at each tick
    full_burst,       \* history: acquire() returns since one from a full bucket
    store,            \* KlineStore.inner: StoreKey -> (has_more, Klines)
    pending,          \* spawned KlineStore::request tasks not yet completed
    returned,         \* history: the last by_pagination call and the page it returned
    REFRESH_EXECUTING,  \* the global "a refresh body is executing" flag
    REFRESH_STOCK_TASK, \* JoinHandle of the last spawned debounced task, 0 = None
    task,             \* the debounced tasks spawned so far
    next_task,        \* number of debounced tasks spawned so far
    burst,            \* history: first task of the current burst of calls, 0 = none
    stocks,           \* STOCKS as the refresh body leaves it: symbol -> what was merged
    inner,            \* StockStore.inner: symbol -> the Arc<Stock> stored for it
    arcs,             \* the Arc<Stock> allocations so far: handle -> Stock
    origin,           \* history: handle -> the call that allocated it
    worker,           \* per task calling STOCKS.modify: position and locals
    reader,           \* the handle a reader task got last, and what it saw then
    inserted,         \* history: symbol -> the state of the last insert, if no write followed
    watchlist,        \* the Watchlist: counters, groups, hidden, sort_by
    trade_sessions,   \* STOCKS as Watchlist::refresh reads it: symbol -> trade_session
    wl_task,          \* the task of refresh_watchlist: position and locals
    flags,            \* a DirtyFlags value and the method that produced it
    render_state,     \* the RenderState of run(): dirty, render_count, skip_count
    ticks             \* history: render ticks processed

rlvars == <<now, semaphore, last_refill, refill_lock, caller, acquired_at,
            full_burst>>
klvars == <<store, pending, returned>>
rfvars == <<REFRESH_EXECUTING, REFRESH_STOCK_TASK, task, next_task, burst, stocks>>
stvars == <<inner, arcs, origin, worker, reader, inserted>>
wlvars == <<watchlist, trade_sessions, wl_task>>
rdvars == <<flags, render_state, ticks>>

vars == <<now, semaphore, last_refill, refill_lock, caller, acquired_at,
          full_burst,
          store, pending, returned,
          REFRESH_EXECUTING, REFRESH_STOCK_TASK, task, next_task, burst, stocks,
          inner, arcs, origin, worker, reader, inserted,
          watchlist, trade_sessions, wl_task,
          flags, render_state, ticks>>

----------------------------------------------------------------------------
(* Bounds *)

TicksPerSecond == 2          \* clock resolution of the model
MaxTime == 4                 \* the clock of SpecRL stops here
MaxExecSeconds == 7          \* seconds SpecExec runs for: the backoffs 1 + 2 + 4
MaxExecTime == MaxExecSeconds * TicksPerSecond + 1
NumCallers == 2              \* concurrent tasks using the limiter
MaxCalls == 4                \* acquire() calls in a run of SpecRLLive
MaxArg == 2                  \* RateLimiter::new arguments are 0..MaxArg
tokens_per_second == 1       \* RateLimiter::new argument (after .max(1))
max_tokens == 2              \* RateLimiter::new argument (after .max(1))

Callers == 1..NumCallers
Times == 0..MaxTime

----------------------------------------------------------------------------
(* RateLimiter: pure helpers *)

MAX_RETRIES == 3

Min(a, b) == IF a < b THEN a ELSE b

Max(a, b) == IF a > b THEN a ELSE b

\* RateLimiter::new: tokens_per_second.max(1), max_tokens.max(1)
RateLimiter_new(tokens_per_second_arg, max_tokens_arg) ==
    [tokens_per_second |-> Max(tokens_per_second_arg, 1),
     max_tokens |-> Max(max_tokens_arg, 1)]

\* Duration::from_secs_f64(1.0 / tokens_per_second), in ticks
wait_duration == TicksPerSecond \div tokens_per_second

\* (elapsed.as_secs_f64() * tokens_per_second) as u32
TokensToAdd(elapsed) == (elapsed * tokens_per_second) \div TicksPerSecond

TokensCapped_uncapped(tokens_to_add, current_tokens) == tokens_to_add

\* max_tokens.saturating_sub(current_tokens), then tokens_to_add.min(..)
TokensCapped(tokens_to_add, current_tokens) ==
    Min(tokens_to_add,
        IF max_tokens >= current_tokens THEN max_tokens - current_tokens ELSE 0)

\* str::contains on messages, modelled as contiguous sub-sequence of words
Contains(msg, pat) ==
    \E i \in 1..(Len(msg) - Len(pat) + 1) :
        SubSeq(msg, i, i + Len(pat) - 1) = pat

\* error_msg.contains("429") || contains("rate limit") || contains("too many requests")
IsRateLimitError(msg) ==
    \/ Contains(msg, <<"429">>)
    \/ Contains(msg, <<"rate", "limit">>)
    \/ Contains(msg, <<"too", "many", "requests">>)

ShouldRetry_offByOne(msg, retry_count) ==
    IsRateLimitError(msg) /\ retry_count <= MAX_RETRIES

\* is_rate_limit_error && retry_count < MAX_RETRIES
ShouldRetry(msg, retry_count) ==
    IsRateLimitError(msg) /\ retry_count < MAX_RETRIES

\* error messages an operation may fail with
ErrorMessages ==
    { <<"429", "rate", "limit", "exceeded">>,
      <<"HTTP", "429">>,
      <<"rate", "limit">>,
      <<"too", "many", "requests">>,
      <<"too", "many">>,
      <<"limit", "rate">>,
      <<"Rate", "Limit">>,
      <<"timeout">> }

Ok == <<"Ok">>
Outcomes == {[msg |-> Ok, ok |-> TRUE]} \cup {[msg |-> m, ok |-> FALSE] : m \in ErrorMessages}
NoResult == [msg |-> <<>>, ok |-> FALSE]

\* invocations, last_outcome, only_rate_limited_before, waits are history
\* fields of the current execute() call: how often f was invoked, what the
\* last invocation returned, whether every earlier one failed with a
\* rate-limit error, and the backoff sleeps taken so far (seconds)
IdleCaller ==
    [retry_count |-> 0, pc |-> "idle", wake |-> 0, l_now |-> 0, l_add |-> 0,
     in_execute |-> FALSE, backoff_duration |-> 0,
     invocations |-> 0, last_outcome |-> NoResult,
     only_rate_limited_before |-> TRUE, waits |-> <<>>, tokens_taken |-> 0,
     result |-> NoResult]

----------------------------------------------------------------------------
(* RateLimiter: actions *)

\* no acquire() has returned yet
NoBurst == [start |-> 0, count |-> 0]

InitRL ==
    /\ now = 0
    /\ semaphore = max_tokens
    /\ last_refill = 0
    /\ refill_lock = 0
    /\ caller = [c \in Callers |-> IdleCaller]
    /\ acquired_at = [t \in Times |-> 0]
    /\ full_burst = NoBurst
\* the clock advances
TickTo(limit) ==
    /\ now < limit
    /\ now' = now + 1
    /\ UNCHANGED <<semaphore, last_refill, refill_lock, caller, acquired_at, full_burst>>
    /\ UNCHANGED <<klvars, rfvars, stvars, wlvars, rdvars>>

\* a task calls acquire() directly
CallAcquire(c) ==
    /\ caller[c].pc \in {"idle", "done"}
    /\ caller' = [caller EXCEPT ![c] = [IdleCaller EXCEPT !.pc = "refill"]]
    /\ UNCHANGED <<now, semaphore, last_refill, refill_lock, acquired_at, full_burst>>
    /\ UNCHANGED <<klvars, rfvars, stvars, wlvars, rdvars>>

CallExecute_backoffTwo(c) ==
    /\ caller[c].pc \in {"idle", "done"}
    /\ caller' = [caller EXCEPT ![c] =
                    [IdleCaller EXCEPT !.pc = "refill", !.in_execute = TRUE,
                                       !.backoff_duration = 2]]
    /\ UNCHANGED <<now, semaphore, last_refill, refill_lock, acquired_at, full_burst>>
    /\ UNCHANGED <<klvars, rfvars, stvars, wlvars, rdvars>>

\* a task calls execute(name, f): retry_count = 0, backoff = 1s, then acquire()
CallExecute(c) ==
    /\ caller[c].pc \in {"idle", "done"}
    /\ caller' = [caller EXCEPT ![c] =
                    [IdleCaller EXCEPT !.pc = "refill", !.in_execute = TRUE,
                                       !.backoff_duration = 1]]
    /\ UNCHANGED <<now, semaphore, last_refill, refill_lock, acquired_at, full_burst>>
    /\ UNCHANGED <<klvars, rfvars, stvars, wlvars, rdvars>>

\* a refill that moves last_refill to the clock when it adds nothing
RefillLock_resetOnZero(c) ==
    /\ caller[c].pc = "refill"
    /\ refill_lock = 0
    /\ LET tokens_to_add == TokensToAdd(now - last_refill) IN
         IF tokens_to_add > 0
         THEN /\ refill_lock' = c
              /\ caller' = [caller EXCEPT ![c].pc = "refill_read",
                                          ![c].l_now = now,
                                          ![c].l_add = tokens_to_add]
              /\ UNCHANGED last_refill
         ELSE /\ refill_lock' = 0
              /\ caller' = [caller EXCEPT ![c].pc = "try"]
              /\ last_refill' = now
    /\ UNCHANGED <<now, semaphore, acquired_at, full_burst>>
    /\ UNCHANGED <<klvars, rfvars, stvars, wlvars, rdvars>>

\* refill_tokens(): lock last_refill, read the clock, compute tokens_to_add
RefillLock(c) ==
    /\ caller[c].pc = "refill"
    /\ refill_lock = 0
    /\ LET tokens_to_add == TokensToAdd(now - last_refill) IN
         IF tokens_to_add > 0
         THEN /\ refill_lock' = c
              /\ caller' = [caller EXCEPT ![c].pc = "refill_read",
                                          ![c].l_now = now,
                                          ![c].l_add = tokens_to_add]
         ELSE /\ refill_lock' = 0
              /\ caller' = [caller EXCEPT ![c].pc = "try"]
    /\ UNCHANGED <<now, semaphore, last_refill, acquired_at, full_burst>>
    /\ UNCHANGED <<klvars, rfvars, stvars, wlvars, rdvars>>

\* refill_tokens(): read available_permits() and cap the refill
RefillRead(c) ==
    /\ caller[c].pc = "refill_read"
    /\ LET tokens_to_add == TokensCapped(caller[c].l_add, semaphore) IN
         IF tokens_to_add > 0
         THEN /\ caller' = [caller EXCEPT ![c].pc = "refill_add",
                                          ![c].l_add = tokens_to_add]
              /\ UNCHANGED refill_lock
         ELSE /\ caller' = [caller EXCEPT ![c].pc = "try",
                                          ![c].l_now = 0, ![c].l_add = 0]
              /\ refill_lock' = 0
    /\ UNCHANGED <<now, semaphore, last_refill, acquired_at, full_burst>>
    /\ UNCHANGED <<klvars, rfvars, stvars, wlvars, rdvars>>

\* refill_tokens(): add_permits, *last_refill = now, unlock
RefillAdd(c) ==
    /\ caller[c].pc = "refill_add"
    /\ semaphore' = semaphore + caller[c].l_add
    /\ last_refill' = caller[c].l_now
    /\ refill_lock' = 0
    /\ caller' = [caller EXCEPT ![c].pc = "try", ![c].l_now = 0, ![c].l_add = 0]
    /\ UNCHANGED <<now, acquired_at, full_burst>>
    /\ UNCHANGED <<klvars, rfvars, stvars, wlvars, rdvars>>

\* semaphore.try_acquire() succeeds: permit.forget(), acquire() returns
TryAcquire(c) ==
    /\ caller[c].pc = "try"
    /\ semaphore > 0
    /\ semaphore' = semaphore - 1
    /\ caller' = [caller EXCEPT ![c].pc =
                    IF caller[c].in_execute THEN "invoke" ELSE "done",
                                ![c].tokens_taken = @ + 1]
    /\ UNCHANGED <<now, last_refill, refill_lock>>
    /\ UNCHANGED <<klvars, rfvars, stvars, wlvars, rdvars>>

\* the returns of acquire() counted from one that found the bucket full:
\* max_tokens of them at the same instant, then the one that follows them
BurstAfterAcquire(b, available, t) ==
    IF 0 < b.count /\ b.count < max_tokens /\ b.start = t
    THEN [b EXCEPT !.count = @ + 1]
    ELSE IF b.count = max_tokens
         THEN [b EXCEPT !.count = @ + 1]
         ELSE IF available = max_tokens
              THEN [start |-> t, count |-> 1]
              ELSE NoBurst

\* acquire() returns, and the return is recorded in the history
TryAcquireOk(c) ==
    /\ TryAcquire(c)
    /\ acquired_at' = [acquired_at EXCEPT ![now] = @ + 1]
    /\ full_burst' = BurstAfterAcquire(full_burst, semaphore, now)

\* acquire() returns inside execute()
TryAcquireInExecute(c) ==
    /\ TryAcquire(c)
    /\ UNCHANGED <<acquired_at, full_burst>>

\* semaphore.try_acquire() fails with NoPermits: sleep(wait_duration)
TryAcquireNoPermits(c) ==
    /\ caller[c].pc = "try"
    /\ semaphore = 0
    /\ caller' = [caller EXCEPT ![c].pc = "sleep", ![c].wake = now + wait_duration]
    /\ UNCHANGED <<now, semaphore, last_refill, refill_lock, acquired_at, full_burst>>
    /\ UNCHANGED <<klvars, rfvars, stvars, wlvars, rdvars>>

\* a sleep (wait_duration or backoff) is over: back to the top of acquire()
WakeUp(c) ==
    /\ caller[c].pc = "sleep"
    /\ now >= caller[c].wake
    /\ caller' = [caller EXCEPT ![c].pc = "refill", ![c].wake = 0]
    /\ UNCHANGED <<now, semaphore, last_refill, refill_lock, acquired_at, full_burst>>
    /\ UNCHANGED <<klvars, rfvars, stvars, wlvars, rdvars>>

\* execute(): f().await with outcome o, then the match on its result
Invoke(c, o) ==
    /\ caller[c].pc = "invoke"
    /\ LET cc == caller[c]
           hist == [cc EXCEPT !.invocations = cc.invocations + 1,
                              !.last_outcome = o,
                              !.only_rate_limited_before =
                                   /\ cc.only_rate_limited_before
                                   /\ (cc.invocations > 0 =>
                                         /\ ~cc.last_outcome.ok
                                         /\ IsRateLimitError(cc.last_outcome.msg))] IN
         IF o.ok
         THEN caller' = [caller EXCEPT ![c] = [hist EXCEPT !.pc = "done", !.result = o]]
         ELSE IF ShouldRetry(o.msg, cc.retry_count)
         THEN caller' = [caller EXCEPT ![c] =
                           [hist EXCEPT !.pc = "sleep",
                                        !.retry_count = cc.retry_count + 1,
                                        !.wake = now + cc.backoff_duration * TicksPerSecond,
                                        !.waits = Append(cc.waits, cc.backoff_duration),
                                        !.backoff_duration = cc.backoff_duration * 2]]
         ELSE caller' = [caller EXCEPT ![c] = [hist EXCEPT !.pc = "done", !.result = o]]
    /\ UNCHANGED <<now, semaphore, last_refill, refill_lock, acquired_at, full_burst>>
    /\ UNCHANGED <<klvars, rfvars, stvars, wlvars, rdvars>>

----------------------------------------------------------------------------
(* KlineStore: data *)

\* KlineType discriminants
PerMinute == 0
PerFiveMinutes == 1
PerFifteenMinutes == 2
PerThirtyMinutes == 3
PerHour == 4
PerDay == 5
PerWeek == 6
PerMonth == 7
PerYear == 8

KlineTypes == PerMinute..PerYear

NoAdjust == "NoAdjust"
ForwardAdjust == "ForwardAdjust"
AdjustTypes == {NoAdjust, ForwardAdjust}
None == "None"

MaxTimestamp == 2            \* candle timestamps are 1..MaxTimestamp
MaxBatch == 2                \* candles per update batch
MaxPending == 1              \* background fetches in flight
MaxPage == 1                 \* pages 0..MaxPage
MaxPageSize == 2             \* page sizes 1..MaxPageSize

Counters == {"AAPL.US"}
\* the periods the model stores series for: the last period that is
\* normalised to NoAdjust and the first one that is not
Periods == {PerDay, PerWeek}

\* the (period, adjustment) pairs the model's callers ask for: both
\* adjustments of the daily series, which share one key, and the
\* forward-adjusted weekly series
Series == {<<PerDay, NoAdjust>>, <<PerDay, ForwardAdjust>>, <<PerWeek, ForwardAdjust>>}

\* the pairs asked for by callers that follow one period above daily under
\* both adjustments, which have a key each
SeriesAboveDaily == {<<PerWeek, NoAdjust>>, <<PerWeek, ForwardAdjust>>}

\* a Kline with raw prices derived from px and adjustment factors a, b
MkKline(ts, px, a, b) ==
    [timestamp |-> ts, open |-> px, high |-> px + 2, low |-> px - 1,
     close |-> px + 1, amount |-> 10, balance |-> 100,
     factor_a |-> a, factor_b |-> b, total |-> 1]

\* candles as KlineStore::request builds them: factor_a = ONE, factor_b = ZERO
UpstreamKlines == {MkKline(ts, 2, 1, 0) : ts \in 1..MaxTimestamp}

\* candles a caller of update may pass: also one with other prices and factors
KlineChoices == UpstreamKlines \cup {MkKline(1, 3, 2, 1)}

SeqsUpTo(S, n) == UNION {[1..k -> S] : k \in 0..n}

Batches == SeqsUpTo(KlineChoices, MaxBatch)

\* what upstream returns: ascending candles, at most count of them
\* the candles upstream holds for a series, oldest first
UpstreamHistory == [ts \in 1..MaxTimestamp |-> MkKline(ts, 2, 1, 0)]

\* QuoteContext::candlesticks(symbol, period, count, adjust, trade_session):
\* the count most recent candles, ascending
Candlesticks(count) ==
    SubSeq(UpstreamHistory,
           IF count >= Len(UpstreamHistory) THEN 1 ELSE Len(UpstreamHistory) - count + 1,
           Len(UpstreamHistory))

\* no by_pagination call yet
NoRead == [called |-> FALSE]

----------------------------------------------------------------------------
(* KlineStore: pure helpers *)

\* KlineStore::normalize
normalize(kline_type) ==
    IF kline_type <= PerDay THEN NoAdjust ELSE None

StoreKey_alwaysNoAdjust(counter, kline_type, adjust_type) ==
    <<counter, kline_type, NoAdjust>>

\* Self::normalize(kline_type).unwrap_or(adjust_type)
StoreKey(counter, kline_type, adjust_type) ==
    <<counter, kline_type,
      IF normalize(kline_type) # None THEN normalize(kline_type) ELSE adjust_type>>

EmptyStore == [k \in {} |-> 0]

kline_clear_keep(st) == st

\* KlineStore::clear on the map: store.clear()
kline_clear(st) == EmptyStore

MergeOne_alwaysPush(entries, kline) == Append(entries, kline)

\* body of the merge loop: replace the first candle with the same timestamp,
\* else push
MergeOne(entries, kline) ==
    IF \E i \in 1..Len(entries) : entries[i].timestamp = kline.timestamp
    THEN LET i == CHOOSE i \in 1..Len(entries) :
                    /\ entries[i].timestamp = kline.timestamp
                    /\ \A j \in 1..(i - 1) : entries[j].timestamp # kline.timestamp
         IN [entries EXCEPT ![i] = kline]
    ELSE Append(entries, kline)

\* a merge that looks for an existing timestamp only among the candles stored
\* before the batch
RECURSIVE MergeAgainst(_, _, _)
MergeAgainst(old_ts, entries, data) ==
    IF data = <<>> THEN entries
    ELSE MergeAgainst(old_ts,
                      IF Head(data).timestamp \in old_ts
                      THEN MergeOne(entries, Head(data))
                      ELSE Append(entries, Head(data)),
                      Tail(data))

Merge_snapshot(entries, data) ==
    MergeAgainst({entries[i].timestamp : i \in 1..Len(entries)}, entries, data)

\* for kline in data { ... }
RECURSIVE Merge(_, _)
Merge(entries, data) ==
    IF data = <<>> THEN entries
    ELSE Merge(MergeOne(entries, Head(data)), Tail(data))

\* stable insertion of k into an ascending sequence
RECURSIVE InsertByTimestamp(_, _)
InsertByTimestamp(sorted, k) ==
    IF sorted = <<>> THEN <<k>>
    ELSE IF sorted[Len(sorted)].timestamp <= k.timestamp THEN Append(sorted, k)
    ELSE Append(InsertByTimestamp(SubSeq(sorted, 1, Len(sorted) - 1), k),
                sorted[Len(sorted)])

\* entry.1.sort_by_key(|k| k.timestamp): stable sort
RECURSIVE SortByTimestamp(_)
SortByTimestamp(entries) ==
    IF entries = <<>> THEN <<>>
    ELSE InsertByTimestamp(SortByTimestamp(SubSeq(entries, 1, Len(entries) - 1)),
                           entries[Len(entries)])

update_keepFlag(st, counter, kline_type, adjust_type, data, more) ==
    LET key == StoreKey(counter, kline_type, adjust_type)
        old == IF key \in DOMAIN st THEN st[key].entries ELSE <<>>
        new == [has_more |-> IF key \in DOMAIN st THEN st[key].has_more ELSE more,
                entries |-> SortByTimestamp(Merge(old, data))]
    IN [k \in DOMAIN st \cup {key} |-> IF k = key THEN new ELSE st[k]]

\* KlineStore::update on the map
update(st, counter, kline_type, adjust_type, data, more) ==
    LET key == StoreKey(counter, kline_type, adjust_type)
        old == IF key \in DOMAIN st THEN st[key].entries ELSE <<>>
        new == [has_more |-> more, entries |-> SortByTimestamp(Merge(old, data))]
    IN [k \in DOMAIN st \cup {key} |-> IF k = key THEN new ELSE st[k]]

\* a window counted from the oldest candle
PageSlice_fromStart(entries, page, page_size) ==
    SubSeq(entries, page * page_size + 1,
           Min(Len(entries), (page + 1) * page_size))

\* the window of by_pagination: entries[offset.saturating_sub(page_size)..offset]
PageSlice(entries, page, page_size) ==
    IF Len(entries) >= page * page_size
    THEN LET offset == Len(entries) - page * page_size
             start == IF offset >= page_size THEN offset - page_size ELSE 0
         IN SubSeq(entries, start + 1, offset)
    ELSE <<>>

\* the "Fix forward adjust" map: raw * a + b on open, close, high, low
Adjusted(e) ==
    [e EXCEPT !.open = e.open * e.factor_a + e.factor_b,
              !.close = e.close * e.factor_a + e.factor_b,
              !.high = e.high * e.factor_a + e.factor_b,
              !.low = e.low * e.factor_a + e.factor_b]

FixForwardAdjust_aboveDaily(kline_type, adjust_type) ==
    kline_type > PerDay /\ adjust_type = ForwardAdjust

\* kline_type <= KlineType::PerDay && adjust_type == AdjustType::ForwardAdjust
FixForwardAdjust(kline_type, adjust_type) ==
    kline_type <= PerDay /\ adjust_type = ForwardAdjust

\* the Klines by_pagination returns
by_pagination(st, counter, kline_type, adjust_type, page, page_size) ==
    LET key == StoreKey(counter, kline_type, adjust_type) IN
    IF key \notin DOMAIN st THEN <<>>
    ELSE LET results == PageSlice(st[key].entries, page, page_size) IN
         IF FixForwardAdjust(kline_type, adjust_type)
         THEN [i \in 1..Len(results) |-> Adjusted(results[i])]
         ELSE results

Request(counter, kline_type, adjust_type, before, count) ==
    [counter |-> counter, kline_type |-> kline_type, adjust_type |-> adjust_type,
     before |-> before, count |-> count]

\* a miss that asks for one page only
SpawnedOnMiss_onePage(counter, kline_type, adjust_type, page, page_size) ==
    <<Request(counter, kline_type, adjust_type, 0, page_size)>>

\* no entry for the key: spawn request(counter, kline_type, adjust_type, 0,
\* (page + 1) * page_size)
SpawnedOnMiss(counter, kline_type, adjust_type, page, page_size) ==
    <<Request(counter, kline_type, adjust_type, 0, (page + 1) * page_size)>>

\* a shortfall that asks for more whatever the has_more flag says
SpawnedOnShortfall_ignoreHasMore(entry, counter, kline_type, adjust_type, page, page_size) ==
    IF Len(PageSlice(entry.entries, page, page_size)) < page_size
    THEN <<Request(counter, kline_type, adjust_type,
                   IF entry.entries = <<>> THEN 0 ELSE entry.entries[1].timestamp,
                   page_size)>>
    ELSE <<>>

\* if *has_more && results.len() < page_size: spawn request(counter,
\* kline_type, adjust_type, entries.first() timestamp or 0, page_size)
SpawnedOnShortfall(entry, counter, kline_type, adjust_type, page, page_size) ==
    IF entry.has_more /\ Len(PageSlice(entry.entries, page, page_size)) < page_size
    THEN <<Request(counter, kline_type, adjust_type,
                   IF entry.entries = <<>> THEN 0 ELSE entry.entries[1].timestamp,
                   page_size)>>
    ELSE <<>>

\* the requests by_pagination spawns (at most one)
Spawned(st, counter, kline_type, adjust_type, page, page_size) ==
    LET key == StoreKey(counter, kline_type, adjust_type) IN
    IF key \notin DOMAIN st
    THEN SpawnedOnMiss(counter, kline_type, adjust_type, page, page_size)
    ELSE SpawnedOnShortfall(st[key], counter, kline_type, adjust_type, page, page_size)

\* request: the match that turns adjust_type into the AdjustType of the
\* upstream call; it is the request's own adjust_type, not normalised
upstream_adjust(adjust_type) ==
    CASE adjust_type = NoAdjust -> NoAdjust
      [] adjust_type = ForwardAdjust -> ForwardAdjust

RemoveAt(q, i) == SubSeq(q, 1, i - 1) \o SubSeq(q, i + 1, Len(q))

----------------------------------------------------------------------------
(* KlineStore: actions *)

InitKline ==
    /\ store = EmptyStore
    /\ pending = <<>>
    /\ returned = NoRead

\* the UI reads a page; a miss or a shortfall spawns a background request
ByPagination(counter, kline_type, adjust_type, page, page_size) ==
    LET spawned == Spawned(store, counter, kline_type, adjust_type, page, page_size) IN
    /\ Len(pending) + Len(spawned) <= MaxPending
    /\ pending' = pending \o spawned
    /\ returned' = [called |-> TRUE, counter |-> counter, kline_type |-> kline_type,
                    adjust_type |-> adjust_type, page |-> page, page_size |-> page_size,
                    klines |-> by_pagination(store, counter, kline_type, adjust_type,
                                             page, page_size)]
    /\ UNCHANGED store
    /\ UNCHANGED <<rlvars, rfvars, stvars, wlvars, rdvars>>

\* KlineStore::update called with a batch
Update(counter, kline_type, adjust_type, data, more) ==
    /\ store' = update(store, counter, kline_type, adjust_type, data, more)
    /\ UNCHANGED <<pending, returned>>
    /\ UNCHANGED <<rlvars, rfvars, stvars, wlvars, rdvars>>

\* KlineStore::clear
Clear ==
    /\ store' = kline_clear(store)
    /\ UNCHANGED <<pending, returned>>
    /\ UNCHANGED <<rlvars, rfvars, stvars, wlvars, rdvars>>

\* exit_stock: KLINES.clear() when the detail view is left; the view whose
\* reads `returned` records is gone, and the requests it spawned stay in flight
ExitStock ==
    /\ store' = kline_clear(store)
    /\ returned' = NoRead
    /\ UNCHANGED pending
    /\ UNCHANGED <<rlvars, rfvars, stvars, wlvars, rdvars>>

RequestOk_alwaysMore(i) ==
    /\ i \in 1..Len(pending)
    /\ LET r == pending[i]
           klines == Candlesticks(r.count)
       IN store' = update(store, r.counter, r.kline_type, r.adjust_type,
                          klines, TRUE)
    /\ pending' = RemoveAt(pending, i)
    /\ UNCHANGED returned
    /\ UNCHANGED <<rlvars, rfvars, stvars, wlvars, rdvars>>

\* KlineStore::request: the upstream call, made with the request's count and
\* without its _before, succeeded
RequestOk(i) ==
    /\ i \in 1..Len(pending)
    /\ LET r == pending[i]
           klines == Candlesticks(r.count)
       IN store' = update(store, r.counter, r.kline_type, r.adjust_type,
                          klines, Len(klines) = r.count)
    /\ pending' = RemoveAt(pending, i)
    /\ UNCHANGED returned
    /\ UNCHANGED <<rlvars, rfvars, stvars, wlvars, rdvars>>

\* KlineStore::request: the upstream call failed, the error is logged
RequestErr(i) ==
    /\ i \in 1..Len(pending)
    /\ pending' = RemoveAt(pending, i)
    /\ UNCHANGED <<store, returned>>
    /\ UNCHANGED <<rlvars, rfvars, stvars, wlvars, rdvars>>

\* the store under its callers: update with any batch, clear
NextKline ==
    \/ \E c \in Counters, sr \in Series, d \in Batches, m \in BOOLEAN :
          Update(c, sr[1], sr[2], d, m)
    \/ Clear

\* the store under callers that follow a period above daily
NextAboveDaily ==
    \/ \E c \in Counters, sr \in SeriesAboveDaily, d \in Batches, m \in BOOLEAN :
          Update(c, sr[1], sr[2], d, m)
    \/ Clear

\* the store under the UI's reads and the background fetches they start
NextFetch ==
    \/ \E c \in Counters, sr \in Series, p \in 0..MaxPage, ps \in 1..MaxPageSize :
          ByPagination(c, sr[1], sr[2], p, ps)
    \/ \E i \in 1..MaxPending : RequestOk(i)
    \/ \E i \in 1..MaxPending : RequestErr(i)
    \/ Clear

----------------------------------------------------------------------------
(* Debounced single-symbol refresh: data *)

MaxTasks == 2                \* refresh_stock_debounced calls in a run
DebounceTicks == 2           \* the 50ms debounce delay, in timer ticks

Symbols == {"AAPL.US", "TSLA.US"}
TaskIds == 1..MaxTasks

\* positions of a debounced task: its awaits and its ends
AwaitPcs == {"await_detail", "await_trade", "await_quote", "await_static", "await_trades"}
LivePcs == {"sleep"} \cup AwaitPcs

\* started, blocked_by, upstream, mutated and cleared are history fields:
\* whether the task acquired the guard, which task held it when this one was
\* skipped, how many upstream calls the task issued, whether it wrote to a
\* cache, the keys KLINES held when the task cleared it
NewTask(counter) ==
    [pc |-> "sleep", counter |-> counter, timer |-> DebounceTicks,
     cancelled |-> FALSE, guard |-> FALSE, started |-> FALSE,
     blocked_by |-> 0, upstream |-> 0, mutated |-> FALSE, cleared |-> {}]

\* a Stock as STOCKS.modify creates it: Stock::new(counter)
NewStock ==
    [quote_pulled |-> FALSE, static_info |-> FALSE, trades |-> FALSE,
     quote_pushed |-> FALSE, depth |-> FALSE]

\* STOCKS.modify(counter, f): get-or-new, apply f, insert
modify(stks, counter, field) ==
    LET base == IF counter \in DOMAIN stks THEN stks[counter] ELSE NewStock
        new == [base EXCEPT ![field] = TRUE]
    IN [c \in DOMAIN stks \cup {counter} |-> IF c = counter THEN new ELSE stks[c]]

try_acquire_unchecked(executing) == [acquired |-> TRUE, executing |-> TRUE]

\* RefreshGuard::try_acquire: REFRESH_EXECUTING.swap(true)
try_acquire(executing) == [acquired |-> ~executing, executing |-> TRUE]

DropGuard_leak(held, executing) == executing

\* Drop for RefreshGuard, run when the task's future ends while holding it
DropGuard(held, executing) == IF held THEN FALSE ELSE executing

Abort_none(tk) == tk

Abort_executingOnly(tk) == IF tk.pc \in AwaitPcs THEN [tk EXCEPT !.cancelled = TRUE] ELSE tk

\* JoinHandle::abort: a task that has not finished is cancelled; it is never
\* polled again and its future is dropped by the runtime
Abort(tk) == IF tk.pc \in LivePcs THEN [tk EXCEPT !.cancelled = TRUE] ELSE tk

Executing(t) == t \in DOMAIN task /\ task[t].pc \in AwaitPcs

Terminal(t) == task[t].pc \in {"done", "skipped", "aborted", "panicked"}

\* history: a call made while the previous task is still inside its debounce
\* delay continues the burst; a call made when every earlier task has ended
\* starts a burst; any other call is not part of a burst
BurstAfterCall(prev, n) ==
    IF prev # 0 /\ task[prev].pc = "sleep" /\ task[prev].timer > 0 THEN burst
    ELSE IF \A t \in DOMAIN task : Terminal(t) THEN n
    ELSE 0

----------------------------------------------------------------------------
(* Debounced single-symbol refresh: actions *)

InitRefresh ==
    /\ REFRESH_EXECUTING = FALSE
    /\ REFRESH_STOCK_TASK = 0
    /\ task = <<>>
    /\ next_task = 0
    /\ burst = 0
    /\ stocks = [c \in {} |-> NewStock]

\* refresh_stock_debounced(counter): abort the stored handle, spawn, store
RefreshStockDebounced(counter) ==
    /\ next_task < MaxTasks
    /\ LET prev == REFRESH_STOCK_TASK
           n == next_task + 1
           aborted == IF prev = 0 THEN task
                      ELSE [task EXCEPT ![prev] = Abort(task[prev])]
       IN /\ task' = Append(aborted, NewTask(counter))
          /\ next_task' = n
          /\ REFRESH_STOCK_TASK' = n
          /\ burst' = BurstAfterCall(prev, n)
    /\ UNCHANGED <<REFRESH_EXECUTING, stocks>>
    /\ UNCHANGED <<rlvars, klvars, stvars, wlvars, rdvars>>

\* time passes for the tokio::time::sleep of every sleeping task
DebounceTick ==
    /\ \E t \in DOMAIN task : task[t].pc = "sleep" /\ task[t].timer > 0
    /\ task' = [t \in DOMAIN task |->
                  IF task[t].pc = "sleep" /\ task[t].timer > 0
                  THEN [task[t] EXCEPT !.timer = @ - 1] ELSE task[t]]
    /\ UNCHANGED <<REFRESH_EXECUTING, REFRESH_STOCK_TASK, next_task, burst, stocks>>
    /\ UNCHANGED <<rlvars, klvars, stvars, wlvars, rdvars>>

\* the runtime drops the future of an aborted task; a held guard is dropped
DropAborted(t) ==
    /\ t \in DOMAIN task
    /\ task[t].cancelled
    /\ task[t].pc \in LivePcs
    /\ REFRESH_EXECUTING' = DropGuard(task[t].guard, REFRESH_EXECUTING)
    /\ task' = [task EXCEPT ![t].pc = "aborted", ![t].guard = FALSE]
    /\ UNCHANGED <<REFRESH_STOCK_TASK, next_task, burst, stocks>>
    /\ UNCHANGED <<rlvars, klvars, stvars, wlvars, rdvars>>

\* the sleep is over: try_acquire; on success KLINES.clear() and the first
\* subscribe call (WS.quote_detail); crate::openapi::quote() panics when the
\* context is not initialised, which unwinds and drops the guard
TimerFires(t, ctx_initialised) ==
    /\ t \in DOMAIN task
    /\ task[t].pc = "sleep"
    /\ task[t].timer = 0
    /\ ~task[t].cancelled
    /\ LET r == try_acquire(REFRESH_EXECUTING)
           holder == IF \E u \in DOMAIN task : task[u].guard
                     THEN CHOOSE u \in DOMAIN task : task[u].guard ELSE 0
       IN IF ~r.acquired
          THEN /\ task' = [task EXCEPT ![t].pc = "skipped", ![t].blocked_by = holder]
               /\ REFRESH_EXECUTING' = r.executing
               /\ UNCHANGED store
          ELSE /\ store' = kline_clear(store)
               /\ IF ctx_initialised
                  THEN /\ task' = [task EXCEPT ![t].pc = "await_detail",
                                               ![t].guard = TRUE,
                                               ![t].started = TRUE,
                                               ![t].mutated = TRUE,
                                               ![t].cleared = DOMAIN store,
                                               ![t].upstream = @ + 1]
                       /\ REFRESH_EXECUTING' = r.executing
                  ELSE /\ task' = [task EXCEPT ![t].pc = "panicked",
                                               ![t].started = TRUE,
                                               ![t].cleared = DOMAIN store,
                                               ![t].mutated = TRUE]
                       /\ REFRESH_EXECUTING' = DropGuard(TRUE, r.executing)
    /\ UNCHANGED <<REFRESH_STOCK_TASK, next_task, burst, stocks, pending, returned>>
    /\ UNCHANGED <<rlvars, stvars, wlvars, rdvars>>

\* WS.quote_detail returned (its result is ignored): call WS.quote_trade
DetailReturns(t) ==
    /\ Executing(t) /\ ~task[t].cancelled
    /\ task[t].pc = "await_detail"
    /\ task' = [task EXCEPT ![t].pc = "await_trade", ![t].upstream = @ + 1]
    /\ UNCHANGED <<REFRESH_EXECUTING, REFRESH_STOCK_TASK, next_task, burst, stocks>>
    /\ UNCHANGED <<rlvars, klvars, stvars, wlvars, rdvars>>

\* WS.quote_trade returned (its result is ignored): call ctx.quote
TradeSubReturns(t) ==
    /\ Executing(t) /\ ~task[t].cancelled
    /\ task[t].pc = "await_trade"
    /\ task' = [task EXCEPT ![t].pc = "await_quote", ![t].upstream = @ + 1]
    /\ UNCHANGED <<REFRESH_EXECUTING, REFRESH_STOCK_TASK, next_task, burst, stocks>>
    /\ UNCHANGED <<rlvars, klvars, stvars, wlvars, rdvars>>

\* ctx.quote returned r: merge the first quote, then decide should_fetch and
\* call fetch_static_info or fetch_trades
QuoteReturns(t, r) ==
    /\ Executing(t) /\ ~task[t].cancelled
    /\ task[t].pc = "await_quote"
    /\ LET counter == task[t].counter
           stks == IF r = "ok" THEN modify(stocks, counter, "quote_pulled") ELSE stocks
           should_fetch == counter \in DOMAIN stks /\ ~stks[counter].static_info
       IN /\ stocks' = stks
          /\ task' = [task EXCEPT ![t].pc = IF should_fetch THEN "await_static"
                                            ELSE "await_trades",
                                  ![t].mutated = (@ \/ r = "ok"),
                                  ![t].upstream = @ + 1]
    /\ UNCHANGED <<REFRESH_EXECUTING, REFRESH_STOCK_TASK, next_task, burst>>
    /\ UNCHANGED <<rlvars, klvars, stvars, wlvars, rdvars>>

\* fetch_static_info returned r: store the first info, then call fetch_trades
StaticInfoReturns(t, r) ==
    /\ Executing(t) /\ ~task[t].cancelled
    /\ task[t].pc = "await_static"
    /\ stocks' = IF r = "ok" THEN modify(stocks, task[t].counter, "static_info") ELSE stocks
    /\ task' = [task EXCEPT ![t].pc = "await_trades",
                            ![t].mutated = (@ \/ r = "ok"),
                            ![t].upstream = @ + 1]
    /\ UNCHANGED <<REFRESH_EXECUTING, REFRESH_STOCK_TASK, next_task, burst>>
    /\ UNCHANGED <<rlvars, klvars, stvars, wlvars, rdvars>>

\* fetch_trades returned r: replace the trades; the body ends, _guard drops
TradesReturns(t, r) ==
    /\ Executing(t) /\ ~task[t].cancelled
    /\ task[t].pc = "await_trades"
    /\ stocks' = IF r = "ok" THEN modify(stocks, task[t].counter, "trades") ELSE stocks
    /\ task' = [task EXCEPT ![t].pc = "done", ![t].guard = FALSE,
                            ![t].mutated = (@ \/ r = "ok")]
    /\ REFRESH_EXECUTING' = DropGuard(task[t].guard, REFRESH_EXECUTING)
    /\ UNCHANGED <<REFRESH_STOCK_TASK, next_task, burst>>
    /\ UNCHANGED <<rlvars, klvars, stvars, wlvars, rdvars>>

\* a background candle fetch of the detail view delivers one page
DetailUpdate(counter, data) ==
    Update(counter, PerDay, NoAdjust, data, FALSE)

CallResults == {"ok", "empty", "err"}

NextRefresh ==
    \/ \E c \in Symbols : RefreshStockDebounced(c)
    \/ DebounceTick
    \/ \E t \in TaskIds : DropAborted(t)
    \/ \E t \in TaskIds, i \in BOOLEAN : TimerFires(t, i)
    \/ \E t \in TaskIds : DetailReturns(t)
    \/ \E t \in TaskIds : TradeSubReturns(t)
    \/ \E t \in TaskIds, r \in CallResults : QuoteReturns(t, r)
    \/ \E t \in TaskIds, r \in CallResults : StaticInfoReturns(t, r)
    \/ \E t \in TaskIds, r \in {"ok", "err"} : TradesReturns(t, r)
    \/ \E c \in Counters : DetailUpdate(c, <<MkKline(1, 2, 1, 0)>>)

----------------------------------------------------------------------------
(* StockStore: data *)

NumWorkers == 2              \* tasks calling STOCKS.modify at the same time
MaxArcs == 2                 \* Arc<Stock> allocations in a run

Workers == 1..NumWorkers

\* the symbols the tasks read and write
StockSymbols == {"AAPL.US", "TSLA.US"}

\* the list a reader passes to mget
MgetCounters == <<"AAPL.US", "TSLA.US">>

\* QuoteData::default()
\* Option<Decimal>: None is the empty sequence, Some(d) the sequence of d
NoDecimal == <<>>
Some(d) == <<d>>

DefaultQuote ==
    [timestamp |-> 0, open |-> NoDecimal, high |-> NoDecimal, low |-> NoDecimal,
     last_done |-> NoDecimal, prev_close |-> NoDecimal, volume |-> 0,
     turnover |-> 0]

\* Stock::new(counter)
StockNew(counter) ==
    [counter |-> counter, name |-> "", trade_status |-> "Normal",
     trade_session |-> "Intraday", quote |-> DefaultQuote, depth |-> <<>>,
     static_info |-> None, trades |-> <<>>]

\* a stock with every field set, as after the first pulls
StockLoaded(counter) ==
    [counter |-> counter, name |-> "name", trade_status |-> "Normal",
     trade_session |-> "Pre",
     quote |-> [timestamp |-> 3, open |-> Some(32), high |-> Some(33),
                low |-> Some(29), last_done |-> Some(31), prev_close |-> Some(30),
                volume |-> 300, turnover |-> 3000],
     depth |-> <<"depth0">>, static_info |-> "info0", trades |-> <<"trade0">>]

\* no Stock (Option::None)
NoStock == [none |-> TRUE]

\* the states a caller inserts
StockStates(counter) == {StockNew(counter), StockLoaded(counter)}

\* a longport PushQuote
PushQuote ==
    [timestamp |-> 4, open |-> 12, high |-> 13, low |-> 10, last_done |-> 11,
     volume |-> 100, turnover |-> 1000, trade_status |-> "Halted",
     trade_session |-> "Post"]

\* a longport SecurityQuote
SecurityQuote ==
    [timestamp |-> 5, open |-> 22, high |-> 23, low |-> 19, last_done |-> 21,
     prev_close |-> 20, volume |-> 200, turnover |-> 2000, trade_status |-> "Fuse"]

\* an update that rebuilds the quote from the push alone
update_from_push_quote_replaceQuote(stock, quote) ==
    [stock EXCEPT !.quote = [DefaultQuote EXCEPT !.last_done = Some(quote.last_done),
                                                 !.open = Some(quote.open),
                                                 !.high = Some(quote.high),
                                                 !.low = Some(quote.low),
                                                 !.volume = quote.volume,
                                                 !.turnover = quote.turnover,
                                                 !.timestamp = quote.timestamp],
                  !.trade_status = quote.trade_status,
                  !.trade_session = quote.trade_session]

\* Stock::update_from_push_quote
update_from_push_quote(stock, quote) ==
    [stock EXCEPT !.quote.last_done = Some(quote.last_done),
                  !.quote.open = Some(quote.open),
                  !.quote.high = Some(quote.high),
                  !.quote.low = Some(quote.low),
                  !.quote.volume = quote.volume,
                  !.quote.turnover = quote.turnover,
                  !.quote.timestamp = quote.timestamp,
                  !.trade_status = quote.trade_status,
                  !.trade_session = quote.trade_session]

\* Stock::update_from_security_quote
update_from_security_quote(stock, quote) ==
    [stock EXCEPT !.quote.last_done = Some(quote.last_done),
                  !.quote.prev_close = Some(quote.prev_close),
                  !.quote.open = Some(quote.open),
                  !.quote.high = Some(quote.high),
                  !.quote.low = Some(quote.low),
                  !.quote.volume = quote.volume,
                  !.quote.turnover = quote.turnover,
                  !.quote.timestamp = quote.timestamp,
                  !.trade_status = quote.trade_status]

\* the mutators passed to modify
Mutators ==
    {[kind |-> "push_quote", arg |-> PushQuote],
     [kind |-> "security_quote", arg |-> SecurityQuote]}

\* f(&mut stock)
Apply(f, stock) ==
    CASE f.kind = "push_quote" -> update_from_push_quote(stock, f.arg)
      [] f.kind = "security_quote" -> update_from_security_quote(stock, f.arg)

NoHandle == 0

IdleWorker ==
    [pc |-> "idle", counter |-> None, stock |-> None, f |-> None, base_id |-> NoHandle]

\* StockStore::get: the handle stored for the symbol
get(in, counter) == IF counter \in DOMAIN in THEN in[counter] ELSE NoHandle

\* the Stock behind a handle
Deref(heap, id) == IF id = NoHandle THEN NoStock ELSE heap[id]

\* the reader holds no handle
NotHeld ==
    [id |-> [c \in StockSymbols |-> NoHandle], todo |-> <<>>,
     seen |-> [c \in StockSymbols |-> NoStock]]

\* the reader after one self.get(c)
AfterGet(rd, in, heap, counter) ==
    [rd EXCEPT !.id[counter] = get(in, counter),
               !.seen[counter] = Deref(heap, get(in, counter))]

\* the call that allocated a handle: insert, or modify with f, which read
\* base_id and replaced replaced_id
ByInsert == [kind |-> "insert"]
ByModify(f, base_id, replaced_id) ==
    [kind |-> "modify", f |-> f, base_id |-> base_id, replaced_id |-> replaced_id]

\* an insert that keeps the value already stored for the symbol
insert_ifAbsent(st, stock) ==
    [arcs |-> Append(st.arcs, stock),
     inner |-> IF stock.counter \in DOMAIN st.inner THEN st.inner
               ELSE [c \in DOMAIN st.inner \cup {stock.counter} |->
                       IF c = stock.counter THEN Len(st.arcs) + 1 ELSE st.inner[c]]]

\* StockStore::insert on (inner, arcs): self.inner.insert(counter, Arc::new(stock))
insert(st, stock) ==
    [arcs |-> Append(st.arcs, stock),
     inner |-> [c \in DOMAIN st.inner \cup {stock.counter} |->
                  IF c = stock.counter THEN Len(st.arcs) + 1 ELSE st.inner[c]]]

\* a write-back that mutates the stored Arc when there is one
modify_insert_inPlace(st, stock) ==
    IF stock.counter \in DOMAIN st.inner
    THEN [arcs |-> [st.arcs EXCEPT ![st.inner[stock.counter]] = stock],
          inner |-> st.inner]
    ELSE insert(st, stock)

\* the last line of StockStore::modify: self.insert(stock)
modify_insert(st, stock) == insert(st, stock)

\* a modify that applies f to the value stored at the time of the write
modified_fromStored(w, st) ==
    IF w.counter \in DOMAIN st.inner
    THEN Apply(w.f, st.arcs[st.inner[w.counter]])
    ELSE Apply(w.f, StockNew(w.counter))

\* the stock modify writes back: its own clone with f applied
modified(w, st) == w.stock

\* number of tasks between the read and the write of modify
InModify == Cardinality({w \in Workers : worker[w].pc = "modify"})

----------------------------------------------------------------------------
(* StockStore: actions *)

InitStocks ==
    /\ inner = [c \in {} |-> NoHandle]
    /\ arcs = <<>>
    /\ origin = <<>>
    /\ worker = [w \in Workers |-> IdleWorker]
    /\ reader = NotHeld
    /\ inserted = [c \in StockSymbols |-> NoStock]

\* STOCKS.get(&counter): the reader keeps the handle
Get(counter) ==
    /\ reader.todo = <<>>
    /\ reader' = AfterGet(reader, inner, arcs, counter)
    /\ UNCHANGED <<inner, arcs, origin, worker, inserted>>
    /\ UNCHANGED <<rlvars, klvars, rfvars, wlvars, rdvars>>

\* STOCKS.mget(counters): the get of the first counter
Mget(counters) ==
    /\ reader.todo = <<>>
    /\ reader' = [AfterGet(reader, inner, arcs, Head(counters))
                    EXCEPT !.todo = Tail(counters)]
    /\ UNCHANGED <<inner, arcs, origin, worker, inserted>>
    /\ UNCHANGED <<rlvars, klvars, rfvars, wlvars, rdvars>>

\* STOCKS.mget(counters): the get of the next counter
MgetNext ==
    /\ reader.todo # <<>>
    /\ reader' = [AfterGet(reader, inner, arcs, Head(reader.todo))
                    EXCEPT !.todo = Tail(reader.todo)]
    /\ UNCHANGED <<inner, arcs, origin, worker, inserted>>
    /\ UNCHANGED <<rlvars, klvars, rfvars, wlvars, rdvars>>

\* STOCKS.insert(stock)
Insert(stock) ==
    /\ Len(arcs) + InModify < MaxArcs
    /\ LET st == insert([inner |-> inner, arcs |-> arcs], stock) IN
         /\ inner' = st.inner
         /\ arcs' = st.arcs
    /\ origin' = Append(origin, ByInsert)
    /\ inserted' = [inserted EXCEPT ![stock.counter] = stock]
    /\ UNCHANGED <<worker, reader>>
    /\ UNCHANGED <<rlvars, klvars, rfvars, wlvars, rdvars>>

\* STOCKS.modify(counter, f): get, clone or Stock::new, f(&mut stock)
ModifyRead(w, counter, f) ==
    /\ worker[w].pc = "idle"
    /\ Len(arcs) + InModify < MaxArcs
    /\ LET id == get(inner, counter)
           base == IF id = NoHandle THEN StockNew(counter) ELSE arcs[id]
       IN worker' = [worker EXCEPT ![w] = [pc |-> "modify", counter |-> counter,
                                          f |-> f, base_id |-> id,
                                          stock |-> Apply(f, base)]]
    /\ UNCHANGED <<inner, arcs, origin, reader, inserted>>
    /\ UNCHANGED <<rlvars, klvars, rfvars, wlvars, rdvars>>

\* STOCKS.modify(counter, f): self.insert(stock)
ModifyWrite(w) ==
    /\ worker[w].pc = "modify"
    /\ LET now_st == [inner |-> inner, arcs |-> arcs]
           st == modify_insert(now_st, modified(worker[w], now_st))
       IN /\ inner' = st.inner
          /\ arcs' = st.arcs
          /\ origin' = IF Len(st.arcs) > Len(arcs)
                       THEN Append(origin, ByModify(worker[w].f, worker[w].base_id,
                                                    get(inner, worker[w].counter)))
                       ELSE origin
    /\ worker' = [worker EXCEPT ![w] = IdleWorker]
    /\ inserted' = [inserted EXCEPT ![worker[w].counter] = NoStock]
    /\ UNCHANGED reader
    /\ UNCHANGED <<rlvars, klvars, rfvars, wlvars, rdvars>>

\* STOCKS.remove(&counter)
Remove(counter) ==
    /\ counter \in DOMAIN inner
    /\ inner' = [c \in DOMAIN inner \ {counter} |-> inner[c]]
    /\ inserted' = [inserted EXCEPT ![counter] = NoStock]
    /\ UNCHANGED <<arcs, origin, worker, reader>>
    /\ UNCHANGED <<rlvars, klvars, rfvars, wlvars, rdvars>>

\* STOCKS.clear()
ClearStocks ==
    /\ DOMAIN inner # {}
    /\ inner' = [c \in {} |-> NoHandle]
    /\ inserted' = [c \in StockSymbols |-> NoStock]
    /\ UNCHANGED <<arcs, origin, worker, reader>>
    /\ UNCHANGED <<rlvars, klvars, rfvars, wlvars, rdvars>>

NextStocks ==
    \/ \E c \in StockSymbols : Get(c)
    \/ Mget(MgetCounters)
    \/ MgetNext
    \/ \E c \in StockSymbols : \E stock \in StockStates(c) : Insert(stock)
    \/ \E w \in Workers, c \in StockSymbols, f \in Mutators : ModifyRead(w, c, f)
    \/ \E w \in Workers : ModifyWrite(w)
    \/ \E c \in StockSymbols : Remove(c)
    \/ ClearStocks

----------------------------------------------------------------------------
(* Watchlist: data *)

MaxWatch == 2                \* symbols passed to Watchlist::load

\* a Counter is its string, a sequence of characters
HEI_US == <<"H", "E", "I", ".", "U", "S">>
HEI_A_US == <<"H", "E", "I", ".", "A", ".", "U", "S">>
HK_700 == <<"7", "0", "0", ".", "H", "K">>
SH_600000 == <<"6", "0", "0", "0", "0", "0", ".", "S", "H">>
SG_D05 == <<"D", "0", "5", ".", "S", "G">>

WatchSymbols == {HEI_US, HEI_A_US, HK_700, SH_600000, SG_D05}

\* the byte of each character (ASCII)
Ascii ==
    "." :> 46 @@ "0" :> 48 @@ "5" :> 53 @@ "6" :> 54 @@ "7" :> 55 @@
    "A" :> 65 @@ "D" :> 68 @@ "E" :> 69 @@ "G" :> 71 @@ "H" :> 72 @@
    "I" :> 73 @@ "K" :> 75 @@ "S" :> 83 @@ "U" :> 85

\* no entry in STOCKS
NoSession == "NoSession"
\* the trade sessions the model pushes: the normal one and one other
PushedSessions == {"Intraday", "Post"}

\* rsplit_once('.'): the position of the last '.', 0 when there is none
LastDot(str) ==
    LET dots == {i \in 1..Len(str) : str[i] = "."}
    IN IF dots = {} THEN 0 ELSE CHOOSE i \in dots : \A j \in dots : j <= i

\* Counter::code
code(counter) ==
    IF LastDot(counter) = 0 THEN counter
    ELSE SubSeq(counter, 1, LastDot(counter) - 1)

\* Counter::market
market(counter) ==
    IF LastDot(counter) = 0 THEN <<>>
    ELSE SubSeq(counter, LastDot(counter) + 1, Len(counter))

\* market_priority
market_priority(m) ==
    IF m = <<"U", "S">> THEN 0
    ELSE IF m = <<"H", "K">> THEN 1
    ELSE IF m = <<"S", "H">> \/ m = <<"S", "Z">> THEN 2
    ELSE IF m = <<"S", "G">> THEN 3
    ELSE 99

\* str::cmp: byte by byte, a proper prefix is less
RECURSIVE StrCmp(_, _)
StrCmp(a, b) ==
    IF a = <<>> THEN (IF b = <<>> THEN "Equal" ELSE "Less")
    ELSE IF b = <<>> THEN "Greater"
    ELSE IF Ascii[Head(a)] < Ascii[Head(b)] THEN "Less"
    ELSE IF Ascii[Head(a)] > Ascii[Head(b)] THEN "Greater"
    ELSE StrCmp(Tail(a), Tail(b))

\* TradeSessionExt::is_normal_trading
is_normal_trading(session) == session = "Intraday"

\* STOCKS.get(a).is_some_and(|s| s.trade_session.is_normal_trading())
normal_trading(sessions, a) ==
    sessions[a] # NoSession /\ is_normal_trading(sessions[a])

\* the closure passed to sort_by
Compare(sessions, a, b) ==
    LET a_normal_trading == normal_trading(sessions, a)
        b_normal_trading == normal_trading(sessions, b)
        a_priority == market_priority(market(a))
        b_priority == market_priority(market(b))
    IN IF a_normal_trading # b_normal_trading
       THEN (IF a_normal_trading THEN "Less" ELSE "Greater")
       ELSE IF a_priority < b_priority THEN "Less"
       ELSE IF a_priority > b_priority THEN "Greater"
       ELSE StrCmp(a, b)

\* slice::sort_by (stable), as an insertion sort with the closure
RECURSIVE InsertSorted(_, _, _)
InsertSorted(sessions, sorted, x) ==
    IF sorted = <<>> THEN <<x>>
    ELSE IF Compare(sessions, x, Head(sorted)) = "Less" THEN <<x>> \o sorted
    ELSE <<Head(sorted)>> \o InsertSorted(sessions, Tail(sorted), x)

RECURSIVE sort_by(_, _)
sort_by(sessions, v) ==
    IF v = <<>> THEN <<>>
    ELSE InsertSorted(sessions, sort_by(sessions, SubSeq(v, 1, Len(v) - 1)),
                      v[Len(v)])

\* Watchlist::load: the counters without repetitions, in order
RECURSIVE load(_)
load(cs) ==
    IF cs = <<>> THEN <<>>
    ELSE LET deduped == load(SubSeq(cs, 1, Len(cs) - 1))
             counter == cs[Len(cs)]
         IN IF \E i \in 1..Len(deduped) : deduped[i] = counter
            THEN deduped
            ELSE Append(deduped, counter)

\* the arguments of load
WatchInputs == UNION {[1..n -> WatchSymbols] : n \in 0..MaxWatch}

----------------------------------------------------------------------------
(* Watchlist: actions *)

\* Watchlist::new, and STOCKS empty
InitWatch ==
    /\ watchlist = [counters |-> <<>>, groups |-> <<>>, hidden |-> FALSE,
                    sort_by |-> <<0, 0, FALSE>>]
    /\ trade_sessions = [c \in WatchSymbols |-> NoSession]

\* Watchlist::load
Load(cs) ==
    /\ watchlist' = [watchlist EXCEPT !.counters = load(cs)]
    /\ UNCHANGED <<trade_sessions, wl_task>>
    /\ UNCHANGED <<rlvars, klvars, rfvars, stvars, rdvars>>

\* a push quote of a symbol is merged into STOCKS
PushSession(counter, session) ==
    /\ trade_sessions' = [trade_sessions EXCEPT ![counter] = session]
    /\ UNCHANGED <<watchlist, wl_task>>
    /\ UNCHANGED <<rlvars, klvars, rfvars, stvars, rdvars>>

\* Watchlist::refresh
WatchRefresh ==
    /\ watchlist' = [watchlist EXCEPT
                        !.counters = sort_by(trade_sessions, watchlist.counters)]
    /\ UNCHANGED <<trade_sessions, wl_task>>
    /\ UNCHANGED <<rlvars, klvars, rfvars, stvars, rdvars>>

NextWatch ==
    \/ \E cs \in WatchInputs : Load(cs)
    \/ \E c \in WatchSymbols : \E session \in PushedSessions : PushSession(c, session)
    \/ WatchRefresh

----------------------------------------------------------------------------
(* refresh_watchlist: data *)

MaxWlRuns == 2               \* refresh_watchlist calls in a run

\* Counter::as_str / to_string: the string the upstream calls are made with
as_str ==
    HEI_US :> "HEI.US" @@ HEI_A_US :> "HEI.A.US" @@ HK_700 :> "700.HK" @@
    SH_600000 :> "600000.SH" @@ SG_D05 :> "D05.SG"

\* quote.symbol.parse(): the Counter of a symbol string
parse(symbol) == CHOOSE c \in WatchSymbols : as_str[c] = symbol

\* what fetch_watchlist returns: Err, or the symbols and the groups
WatchlistResponses ==
    {[ok |-> FALSE],
     [ok |-> TRUE, counters |-> <<>>, groups |-> <<1>>],
     [ok |-> TRUE, counters |-> <<HK_700, HEI_US>>, groups |-> <<1, 2>>]}

\* what fetch_holdings returns
HoldingsResponses ==
    {[ok |-> FALSE], [ok |-> TRUE, counters |-> <<HEI_US, SG_D05>>]}

\* TradeSession::default() of a Stock::new; the SDK defines it
DefaultSessions == {"Intraday", "Post"}

\* the symbols whose quotes are pushed
PushedSymbols == {HK_700, HEI_US}

\* the task before refresh_watchlist is called; runs and sent are history
\* fields: the calls so far and the CommandQueues sent
\* i is the position of the placeholder loop; subscribed holds the symbols
\* some subscribe call named
NewWlTask ==
    [i |-> 0, pc |-> "idle", counters |-> <<>>, subscribed |-> {},
     runs |-> 0, sent |-> 0]

\* Watchlist::full_load: watchlist counters then holdings, deduplicated
full_load(watchlist_counters, holdings) == load(watchlist_counters \o holdings)

on_watch_resp_clearOnErr(wl, watch_resp, holdings) ==
    IF watch_resp.ok
    THEN [wl EXCEPT !.groups = watch_resp.groups,
                    !.counters = IF holdings.ok
                                 THEN full_load(watch_resp.counters, holdings.counters)
                                 ELSE load(watch_resp.counters)]
    ELSE [wl EXCEPT !.groups = <<>>, !.counters = <<>>]

\* match watch_resp: Ok sets the groups and loads the counters, with the
\* holdings when they were fetched; Err logs and returns
on_watch_resp(wl, watch_resp, holdings) ==
    IF watch_resp.ok
    THEN [wl EXCEPT !.groups = watch_resp.groups,
                    !.counters = IF holdings.ok
                                 THEN full_load(watch_resp.counters, holdings.counters)
                                 ELSE load(watch_resp.counters)]
    ELSE wl

\* the symbol strings of the counters
symbols_of(counters) == [i \in 1..Len(counters) |-> as_str[counters[i]]]

\* STOCKS.insert(stock) of a Stock::new: the entry is written whatever the
\* map holds
insert_new(stks, counter) ==
    [c \in DOMAIN stks \cup {counter} |-> IF c = counter THEN NewStock ELSE stks[c]]

\* the placeholder loop goes to its next counter, or leaves for ctx.quote
next_counter(t) ==
    IF t.i < Len(t.counters)
    THEN [t EXCEPT !.pc = "placeholder_get", !.i = @ + 1]
    ELSE [t EXCEPT !.pc = "await_quotes"]

\* for each returned item: parse its symbol and STOCKS.modify the entry
RECURSIVE modify_each(_, _, _)
modify_each(stks, symbols, field) ==
    IF symbols = <<>> THEN stks
    ELSE modify_each(modify(stks, as_str[parse(Head(symbols))], field),
                     Tail(symbols), field)

\* match on the result of ctx.quote / ctx.static_info: Ok merges every
\* returned item, Err logs
merge_fetched(stks, r, symbols, field) ==
    IF r = "ok" THEN modify_each(stks, symbols, field) ELSE stks

----------------------------------------------------------------------------
(* refresh_watchlist: actions *)

InitWatchlistRefresh == wl_task = NewWlTask

\* refresh_watchlist: spawn the task, which reads group_id and awaits
\* fetch_watchlist and fetch_holdings; crate::openapi::quote() panics when
\* the context is not initialised
RefreshWatchlist(ctx_initialised) ==
    /\ wl_task.pc \in {"idle", "done", "failed", "panicked"}
    /\ wl_task.runs < MaxWlRuns
    /\ wl_task' = [wl_task EXCEPT
                      !.pc = IF ctx_initialised THEN "await_watchlist" ELSE "panicked",
                      !.runs = @ + 1]
    /\ UNCHANGED <<watchlist, trade_sessions>>
    /\ UNCHANGED <<rlvars, klvars, rfvars, stvars, rdvars>>

\* the join returned: on Err return; on Ok set the groups, load the
\* counters, set hidden and sort_by and enter the placeholder loop, or call
\* WS.remount when there is no counter
WatchlistReturns(watch_resp, holdings) ==
    /\ wl_task.pc = "await_watchlist"
    /\ IF ~watch_resp.ok
       THEN /\ watchlist' = on_watch_resp(watchlist, watch_resp, holdings)
            /\ wl_task' = [wl_task EXCEPT !.pc = "failed"]
            /\ UNCHANGED <<stocks, trade_sessions>>
       ELSE LET wl == [on_watch_resp(watchlist, watch_resp, holdings) EXCEPT
                          !.hidden = TRUE, !.sort_by = <<0, 0, FALSE>>]
                counters == wl.counters
            IN /\ watchlist' = wl
               /\ wl_task' = [wl_task EXCEPT
                                 !.pc = IF counters # <<>> THEN "placeholder_get"
                                        ELSE "await_remount",
                                 !.counters = counters,
                                 !.i = 1]
               /\ UNCHANGED <<stocks, trade_sessions>>
    /\ UNCHANGED <<REFRESH_EXECUTING, REFRESH_STOCK_TASK, task, next_task, burst>>
    /\ UNCHANGED <<rlvars, klvars, stvars, rdvars>>

\* if STOCKS.get(counter).is_none(): the read of the placeholder loop
PlaceholderGet ==
    /\ wl_task.pc = "placeholder_get"
    /\ wl_task' = IF as_str[wl_task.counters[wl_task.i]] \in DOMAIN stocks
                  THEN next_counter(wl_task)
                  ELSE [wl_task EXCEPT !.pc = "placeholder_insert"]
    /\ UNCHANGED <<watchlist, trade_sessions>>
    /\ UNCHANGED <<rlvars, klvars, rfvars, stvars, rdvars>>

\* STOCKS.insert(stock) of the Stock::new, in the branch the read chose
PlaceholderInsert(default_session) ==
    /\ wl_task.pc = "placeholder_insert"
    /\ stocks' = insert_new(stocks, as_str[wl_task.counters[wl_task.i]])
    /\ trade_sessions' = [trade_sessions EXCEPT
                             ![wl_task.counters[wl_task.i]] = default_session]
    /\ wl_task' = next_counter(wl_task)
    /\ UNCHANGED watchlist
    /\ UNCHANGED <<REFRESH_EXECUTING, REFRESH_STOCK_TASK, task, next_task, burst>>
    /\ UNCHANGED <<rlvars, klvars, stvars, rdvars>>

\* ctx.quote returned r: merge the quotes, then call ctx.static_info
InitialQuotesReturn(r) ==
    /\ wl_task.pc = "await_quotes"
    /\ stocks' = merge_fetched(stocks, r, symbols_of(wl_task.counters), "quote_pulled")
    /\ wl_task' = [wl_task EXCEPT !.pc = "await_static_infos"]
    /\ UNCHANGED <<watchlist, trade_sessions>>
    /\ UNCHANGED <<REFRESH_EXECUTING, REFRESH_STOCK_TASK, task, next_task, burst>>
    /\ UNCHANGED <<rlvars, klvars, stvars, rdvars>>

\* ctx.static_info returned r: merge the infos, then call WS.remount
StaticInfosReturn(r) ==
    /\ wl_task.pc = "await_static_infos"
    /\ stocks' = merge_fetched(stocks, r, symbols_of(wl_task.counters), "static_info")
    /\ wl_task' = [wl_task EXCEPT !.pc = "await_remount"]
    /\ UNCHANGED <<watchlist, trade_sessions>>
    /\ UNCHANGED <<REFRESH_EXECUTING, REFRESH_STOCK_TASK, task, next_task, burst>>
    /\ UNCHANGED <<rlvars, klvars, stvars, rdvars>>

\* WS.remount returned (its result is ignored): WATCHLIST.refresh() and the
\* CommandQueue with the LocalSearch is sent
RemountReturns ==
    /\ wl_task.pc = "await_remount"
    /\ watchlist' = [watchlist EXCEPT
                        !.counters = sort_by(trade_sessions, watchlist.counters)]
    /\ wl_task' = [wl_task EXCEPT
                      !.pc = "done", !.sent = @ + 1,
                      !.subscribed = @ \cup {wl_task.counters[i] :
                                                i \in 1..Len(wl_task.counters)}]
    /\ UNCHANGED trade_sessions
    /\ UNCHANGED <<rlvars, klvars, rfvars, stvars, rdvars>>

\* WS.quote_detail of a detail view subscribed the quotes of counter
QuoteDetail(counter) ==
    /\ counter \notin wl_task.subscribed
    /\ wl_task' = [wl_task EXCEPT !.subscribed = @ \cup {counter}]
    /\ UNCHANGED <<watchlist, trade_sessions>>
    /\ UNCHANGED <<rlvars, klvars, rfvars, stvars, rdvars>>

NextWatchlistRefresh ==
    \/ \E i \in BOOLEAN : RefreshWatchlist(i)
    \/ \E watch_resp \in WatchlistResponses, holdings \in HoldingsResponses :
          WatchlistReturns(watch_resp, holdings)
    \/ PlaceholderGet
    \/ \E d \in DefaultSessions : PlaceholderInsert(d)
    \/ \E r \in {"ok", "err"} : InitialQuotesReturn(r)
    \/ \E r \in {"ok", "err"} : StaticInfosReturn(r)
    \/ RemountReturns

\* both refreshes, each on its own from the start: a run has the debounced
\* single-symbol refreshes or the watchlist refreshes (they write different
\* entries of STOCKS here, and no failure arm reads what the other wrote)
NextPull ==
    \/ wl_task = NewWlTask /\ NextRefresh
    \/ task = <<>> /\ store = EmptyStore /\ NextWatchlistRefresh

----------------------------------------------------------------------------
(* DirtyFlags: data *)

\* a DirtyFlags value is the set of the positions of its bits (u32)
Bits == 0..31

NONE == {}
WATCHLIST == {0}
STOCK_DETAIL == {1}
PORTFOLIO == {2}
INDEXES == {3}
POPUP_HELP == {4}
POPUP_SEARCH == {5}
POPUP_ACCOUNT == {6}
POPUP_CURRENCY == {7}
POPUP_WATCHLIST == {8}
LOADING == {9}
ERROR == {10}
STATUS_BAR == {11}
DEPTH == {12}
ALL == Bits

\* the flags of one component
ComponentFlags ==
    {WATCHLIST, STOCK_DETAIL, PORTFOLIO, INDEXES, POPUP_HELP, POPUP_SEARCH,
     POPUP_ACCOUNT, POPUP_CURRENCY, POPUP_WATCHLIST, LOADING, ERROR,
     STATUS_BAR, DEPTH}

\* bitflags insert: self |= other
flags_insert(self, other) == self \cup other

\* bitflags is_empty
is_empty(self) == self = {}

\* DirtyFlags::needs_render
needs_render(self) == ~is_empty(self)

\* a quote update that leaves the status bar out
mark_quote_update_noStatusBar(self) ==
    flags_insert(self, WATCHLIST \cup STOCK_DETAIL \cup INDEXES)

\* DirtyFlags::mark_quote_update
mark_quote_update(self) ==
    flags_insert(self, WATCHLIST \cup STOCK_DETAIL \cup INDEXES \cup STATUS_BAR)

\* DirtyFlags::mark_depth_update
mark_depth_update(self) == flags_insert(self, STOCK_DETAIL \cup DEPTH)

\* DirtyFlags::mark_portfolio_update
mark_portfolio_update(self) == flags_insert(self, PORTFOLIO)

\* DirtyFlags::mark_state_change
mark_state_change(self) == flags_insert(self, ALL)

----------------------------------------------------------------------------
(* DirtyFlags: actions on one value *)

InitFlags == flags = [value |-> NONE, by |-> "NONE"]

\* self.insert(f) for the flag of a component
FlagsInsert(f) ==
    /\ flags' = [value |-> flags_insert(flags.value, f), by |-> "insert"]
    /\ UNCHANGED <<render_state, ticks>>
    /\ UNCHANGED <<rlvars, klvars, rfvars, stvars, wlvars>>

MarkQuoteUpdate ==
    /\ flags' = [value |-> mark_quote_update(flags.value), by |-> "mark_quote_update"]
    /\ UNCHANGED <<render_state, ticks>>
    /\ UNCHANGED <<rlvars, klvars, rfvars, stvars, wlvars>>

MarkDepthUpdate ==
    /\ flags' = [value |-> mark_depth_update(flags.value), by |-> "mark_depth_update"]
    /\ UNCHANGED <<render_state, ticks>>
    /\ UNCHANGED <<rlvars, klvars, rfvars, stvars, wlvars>>

MarkPortfolioUpdate ==
    /\ flags' = [value |-> mark_portfolio_update(flags.value),
                 by |-> "mark_portfolio_update"]
    /\ UNCHANGED <<render_state, ticks>>
    /\ UNCHANGED <<rlvars, klvars, rfvars, stvars, wlvars>>

MarkStateChange ==
    /\ flags' = [value |-> mark_state_change(flags.value), by |-> "mark_state_change"]
    /\ UNCHANGED <<render_state, ticks>>
    /\ UNCHANGED <<rlvars, klvars, rfvars, stvars, wlvars>>

\* DirtyFlags::NONE
FlagsNone ==
    /\ flags' = [value |-> NONE, by |-> "NONE"]
    /\ UNCHANGED <<render_state, ticks>>
    /\ UNCHANGED <<rlvars, klvars, rfvars, stvars, wlvars>>

NextFlags ==
    \/ \E f \in ComponentFlags : FlagsInsert(f)
    \/ MarkQuoteUpdate
    \/ MarkDepthUpdate
    \/ MarkPortfolioUpdate
    \/ MarkStateChange
    \/ FlagsNone

----------------------------------------------------------------------------
(* RenderState: data *)

MaxTicks == 3                \* render ticks in a run

\* RenderState::new, then mark_all_dirty (the initial render)
NewRenderState == [dirty |-> ALL, render_count |-> 0, skip_count |-> 0]

\* RenderState::mark_dirty
mark_dirty(rs, f) == [rs EXCEPT !.dirty = flags_insert(@, f)]

\* a clear that leaves the dirty bits set
clear_countOnly(rs) == [rs EXCEPT !.render_count = @ + 1]

\* RenderState::clear
clear(rs) == [rs EXCEPT !.dirty = NONE, !.render_count = @ + 1]

\* RenderState::skip
skip(rs) == [rs EXCEPT !.skip_count = @ + 1]

----------------------------------------------------------------------------
(* RenderState: actions of the event loop of run() *)

InitRender ==
    /\ render_state = NewRenderState
    /\ ticks = 0

\* render_tick.tick(): one render pass and clear, or skip
RenderTick ==
    /\ ticks < MaxTicks
    /\ render_state' = IF needs_render(render_state.dirty)
                       THEN clear(render_state)
                       ELSE skip(render_state)
    /\ ticks' = ticks + 1
    /\ UNCHANGED flags
    /\ UNCHANGED <<rlvars, klvars, rfvars, stvars, wlvars>>

\* update_rx.recv(): the command is applied, everything is marked
CommandRecv ==
    /\ render_state' = mark_dirty(render_state, ALL)
    /\ UNCHANGED <<flags, ticks>>
    /\ UNCHANGED <<rlvars, klvars, rfvars, stvars, wlvars>>

\* a key event handled by marking the flags f
KeyEvent(f) ==
    /\ render_state' = mark_dirty(render_state, f)
    /\ UNCHANGED <<flags, ticks>>
    /\ UNCHANGED <<rlvars, klvars, rfvars, stvars, wlvars>>

\* a quote push event: STOCKS.modify with update_from_push_quote, then the
\* quote components are marked
PushQuoteEvent(counter) ==
    /\ stocks' = modify(stocks, counter, "quote_pushed")
    /\ render_state' = mark_dirty(render_state, mark_quote_update(NONE))
    /\ UNCHANGED <<flags, ticks>>
    /\ UNCHANGED <<REFRESH_EXECUTING, REFRESH_STOCK_TASK, task, next_task, burst>>
    /\ UNCHANGED <<rlvars, klvars, stvars, wlvars>>

\* the event loop of run() takes a quote push of a subscribed symbol while
\* the spawned refresh_watchlist is between two of its steps
PushQuoteWatched(counter, session) ==
    /\ counter \in wl_task.subscribed
    /\ stocks' = modify(stocks, as_str[counter], "quote_pushed")
    /\ trade_sessions' = [trade_sessions EXCEPT ![counter] = session]
    /\ render_state' = mark_dirty(render_state, mark_quote_update(NONE))
    /\ UNCHANGED <<watchlist, wl_task>>
    /\ UNCHANGED <<flags, ticks>>
    /\ UNCHANGED <<REFRESH_EXECUTING, REFRESH_STOCK_TASK, task, next_task, burst>>
    /\ UNCHANGED <<rlvars, klvars, stvars>>

\* the R key in AppState::WatchlistStock: refresh_stock_debounced of the
\* detail symbol, then refresh_watchlist, then the two views are marked
RefreshKeyWatchlistStock(counter) ==
    /\ next_task < MaxTasks
    /\ wl_task.pc \in {"idle", "done", "failed", "panicked"}
    /\ wl_task.runs < MaxWlRuns
    /\ LET prev == REFRESH_STOCK_TASK
           n == next_task + 1
           aborted == IF prev = 0 THEN task
                      ELSE [task EXCEPT ![prev] = Abort(task[prev])]
       IN /\ task' = Append(aborted, NewTask(counter))
          /\ next_task' = n
          /\ REFRESH_STOCK_TASK' = n
          /\ burst' = BurstAfterCall(prev, n)
    /\ wl_task' = [wl_task EXCEPT !.pc = "await_watchlist", !.runs = @ + 1]
    /\ render_state' = mark_dirty(render_state, STOCK_DETAIL \cup WATCHLIST)
    /\ UNCHANGED <<REFRESH_EXECUTING, stocks, watchlist, trade_sessions>>
    /\ UNCHANGED <<flags, ticks>>
    /\ UNCHANGED <<rlvars, klvars, stvars>>

\* a depth push event: STOCKS.modify of the depth, then the depth components
\* are marked
PushDepthEvent(counter) ==
    /\ stocks' = modify(stocks, counter, "depth")
    /\ render_state' = mark_dirty(render_state, mark_depth_update(NONE))
    /\ UNCHANGED <<flags, ticks>>
    /\ UNCHANGED <<REFRESH_EXECUTING, REFRESH_STOCK_TASK, task, next_task, burst>>
    /\ UNCHANGED <<rlvars, klvars, stvars, wlvars>>

\* the flags the modelled key events mark
KeyFlags == {ERROR, PORTFOLIO, POPUP_HELP, STOCK_DETAIL \cup WATCHLIST}

\* the event loop of run()
NextRender ==
    \/ RenderTick
    \/ CommandRecv
    \/ \E f \in KeyFlags : KeyEvent(f)
    \/ \E c \in Symbols : PushQuoteEvent(c)
    \/ \E c \in Symbols : PushDepthEvent(c)

\* the event loop of run() and the tasks that write the caches on their own:
\* the debounced refresh and the background candle fetch
NextRenderPull ==
    \/ RenderTick
    \/ \E c \in Symbols : PushQuoteEvent(c)
    \/ NextRefresh

----------------------------------------------------------------------------
(* Specifications *)

Init ==
    /\ InitRL /\ InitKline /\ InitRefresh /\ InitStocks /\ InitWatch
    /\ InitWatchlistRefresh /\ InitFlags /\ InitRender

SpecFlags == Init /\ [][NextFlags]_vars

SpecRender == Init /\ [][NextRender]_vars

SpecRenderPull == Init /\ [][NextRenderPull]_vars

SpecWatch == Init /\ [][NextWatch]_vars

SpecKline == Init /\ [][NextKline]_vars

SpecStocks == Init /\ [][NextStocks]_vars

SpecFetch == Init /\ [][NextFetch]_vars

SpecAboveDaily == Init /\ [][NextAboveDaily]_vars

SpecRefresh == Init /\ [][NextRefresh]_vars

SpecPull == Init /\ [][NextPull]_vars

\* a detail view that reads pages, is left and is entered again, with the
\* background fetches its reads start
NextExit ==
    \/ \E c \in Counters, sr \in Series, p \in 0..MaxPage, ps \in 1..MaxPageSize :
          ByPagination(c, sr[1], sr[2], p, ps)
    \/ \E i \in 1..MaxPending : RequestOk(i)
    \/ \E i \in 1..MaxPending : RequestErr(i)
    \/ ExitStock

SpecExit == Init /\ [][NextExit]_vars

\* the UI's reads and the background fetches they start, when every fetch
\* succeeds and nothing clears the store
NextFetchLive ==
    \/ \E c \in Counters, sr \in Series, p \in 0..MaxPage, ps \in 1..MaxPageSize :
          ByPagination(c, sr[1], sr[2], p, ps)
    \/ \E i \in 1..MaxPending : RequestOk(i)

\* every spawned request is polled until its upstream call returns
FairFetch == \A i \in 1..MaxPending : WF_vars(RequestOk(i))

SpecFetchLive == Init /\ [][NextFetchLive]_vars /\ FairFetch

\* the debounced refresh with an initialised context, whose upstream calls
\* return
NextRefreshLive ==
    \/ \E c \in Symbols : RefreshStockDebounced(c)
    \/ DebounceTick
    \/ \E t \in TaskIds : DropAborted(t)
    \/ \E t \in TaskIds : TimerFires(t, TRUE)
    \/ \E t \in TaskIds : DetailReturns(t)
    \/ \E t \in TaskIds : TradeSubReturns(t)
    \/ \E t \in TaskIds, r \in CallResults : QuoteReturns(t, r)
    \/ \E t \in TaskIds, r \in CallResults : StaticInfoReturns(t, r)
    \/ \E t \in TaskIds, r \in {"ok", "err"} : TradesReturns(t, r)

\* the runtime polls every task that can run, drops every aborted future,
\* the timers advance and every upstream call returns; nothing forces a call
\* of refresh_stock_debounced
FairRefresh ==
    /\ WF_vars(DebounceTick)
    /\ \A t \in TaskIds :
          /\ WF_vars(DropAborted(t))
          /\ WF_vars(TimerFires(t, TRUE))
          /\ WF_vars(DetailReturns(t))
          /\ WF_vars(TradeSubReturns(t))
          /\ WF_vars(\E r \in CallResults : QuoteReturns(t, r))
          /\ WF_vars(\E r \in CallResults : StaticInfoReturns(t, r))
          /\ WF_vars(\E r \in {"ok", "err"} : TradesReturns(t, r))

SpecRefreshLive == Init /\ [][NextRefreshLive]_vars /\ FairRefresh

\* the watchlist refresh with the quote pushes of the subscribed symbols
NextPlaceholder ==
    \/ NextWatchlistRefresh
    \/ \E counter \in PushedSymbols : QuoteDetail(counter)
    \/ \E counter \in PushedSymbols, session \in {"Intraday", "Post"} :
          PushQuoteWatched(counter, session)

SpecPlaceholder == Init /\ [][NextPlaceholder]_vars

\* the R key of the WatchlistStock view and the steps of the two tasks it
\* spawns
NextRefreshKey ==
    \/ \E c \in Symbols : RefreshKeyWatchlistStock(c)
    \/ DebounceTick
    \/ \E t \in TaskIds : DropAborted(t)
    \/ \E t \in TaskIds : TimerFires(t, TRUE)
    \/ \E t \in TaskIds : DetailReturns(t)
    \/ \E t \in TaskIds : TradeSubReturns(t)
    \/ \E t \in TaskIds, r \in CallResults : QuoteReturns(t, r)
    \/ \E t \in TaskIds, r \in CallResults : StaticInfoReturns(t, r)
    \/ \E t \in TaskIds : TradesReturns(t, "ok")
    \/ \E watch_resp \in WatchlistResponses, holdings \in HoldingsResponses :
          WatchlistReturns(watch_resp, holdings)
    \/ PlaceholderGet
    \/ PlaceholderInsert("Intraday")
    \/ InitialQuotesReturn("ok")
    \/ StaticInfosReturn("ok")
    \/ RemountReturns

SpecRefreshKey == Init /\ [][NextRefreshKey]_vars

TickRL == TickTo(MaxTime)

NextRL ==
    \/ TickRL
    \/ \E c \in Callers : CallAcquire(c)
    \/ \E c \in Callers : RefillLock(c)
    \/ \E c \in Callers : RefillRead(c)
    \/ \E c \in Callers : RefillAdd(c)
    \/ \E c \in Callers : TryAcquireOk(c)
    \/ \E c \in Callers : TryAcquireNoPermits(c)
    \/ \E c \in Callers : WakeUp(c)

SpecRL == Init /\ [][NextRL]_vars

RECURSIVE SumAcquired(_, _)
SumAcquired(s, e) == IF s > e THEN 0 ELSE acquired_at[s] + SumAcquired(s + 1, e)

\* acquire() calls made so far: the returned ones and the ones in progress
CallsMade ==
    SumAcquired(0, MaxTime)
        + Cardinality({c \in Callers : caller[c].pc \notin {"idle", "done"}})

\* a task calls acquire(), one of the MaxCalls calls of the run
CallAcquireLive(c) ==
    /\ CallsMade < MaxCalls
    /\ CallAcquire(c)

\* the clock advances without a bound: the Instants the limiter and its
\* callers hold are kept relative to the present, which stays at now = 0, so a
\* tick moves each of them one tick into the past. An Instant MaxTime ticks
\* old is not aged further: TokensToAdd(MaxTime) >= max_tokens, and the cap of
\* the refill makes every older last_refill add the same tokens
TickLive ==
    /\ last_refill' = Max(last_refill - 1, 0 - MaxTime)
    /\ caller' = [c \in Callers |->
                    [caller[c] EXCEPT
                        !.wake = Max(@ - 1, 0),
                        !.l_now = IF caller[c].pc \in {"refill_read", "refill_add"}
                                  THEN Max(@ - 1, 0 - MaxTime) ELSE @]]
    /\ UNCHANGED <<now, semaphore, refill_lock, acquired_at, full_burst>>
    /\ UNCHANGED <<klvars, rfvars, stvars, wlvars, rdvars>>

\* a finite number of acquire() calls under a clock that never stops
NextRLLive ==
    \/ TickLive
    \/ \E c \in Callers : CallAcquireLive(c)
    \/ \E c \in Callers : RefillLock(c)
    \/ \E c \in Callers : RefillRead(c)
    \/ \E c \in Callers : RefillAdd(c)
    \/ \E c \in Callers : TryAcquireOk(c)
    \/ \E c \in Callers : TryAcquireNoPermits(c)
    \/ \E c \in Callers : WakeUp(c)

\* time advances; the runtime polls every task that can run; the tokio Mutex
\* of last_refill is fair (FIFO), so a task that keeps asking for it gets it;
\* nothing forces a call of acquire()
FairRL ==
    /\ WF_vars(TickLive)
    /\ \A c \in Callers :
          /\ SF_vars(RefillLock(c))
          /\ WF_vars(RefillRead(c))
          /\ WF_vars(RefillAdd(c))
          /\ WF_vars(TryAcquireOk(c) \/ TryAcquireNoPermits(c))
          /\ WF_vars(WakeUp(c))

SpecRLLive == Init /\ [][NextRLLive]_vars /\ FairRL

TickExec == TickTo(MaxExecTime)

\* one task runs execute() calls, the others stay idle
NextExec ==
    \/ TickExec
    \/ CallExecute(1)
    \/ RefillLock(1)
    \/ RefillRead(1)
    \/ RefillAdd(1)
    \/ TryAcquireInExecute(1)
    \/ TryAcquireNoPermits(1)
    \/ WakeUp(1)
    \/ \E o \in Outcomes : Invoke(1, o)

SpecExec == Init /\ [][NextExec]_vars

----------------------------------------------------------------------------
(* RateLimiter: properties *)

\* C1: in any time window the number of acquire() calls that return is at
\* most max_tokens + tokens_per_second * (length of the window).  The ticks
\* s..e lie in a window shorter than e - s + 1 ticks, so the bound is stated
\* with that length (in ticks, scaled by TicksPerSecond).
C1_RateBound ==
    \A s \in Times : \A e \in Times :
        (s <= e /\ e <= now) =>
            SumAcquired(s, e) * TicksPerSecond
                <= max_tokens * TicksPerSecond + tokens_per_second * (e - s + 1)

\* C2: execute invokes the operation at most MAX_RETRIES + 1 times; it goes
\* on only after a rate-limit error and at most MAX_RETRIES times; it returns
\* the outcome of its last invocation: the first success, a rate-limit error
\* only after exactly MAX_RETRIES retries, any other error right away.
C2_ExecuteRetry ==
    \A c \in Callers :
        LET cc == caller[c] IN
        cc.in_execute =>
            /\ cc.invocations <= MAX_RETRIES + 1
            /\ cc.only_rate_limited_before
            /\ cc.pc = "done" =>
                 /\ cc.result = cc.last_outcome
                 /\ cc.invocations = cc.retry_count + 1
                 /\ (~cc.result.ok /\ IsRateLimitError(cc.result.msg))
                        => cc.retry_count = MAX_RETRIES
            /\ (cc.pc # "done" /\ cc.invocations > 0) =>
                 /\ ~cc.last_outcome.ok
                 /\ IsRateLimitError(cc.last_outcome.msg)
                 /\ cc.invocations = cc.retry_count
                 /\ cc.retry_count <= MAX_RETRIES

\* an execute call that returned the rate-limit error of its 4th invocation
C2_Witness ==
    \E c \in Callers :
        /\ caller[c].in_execute
        /\ caller[c].pc = "done"
        /\ caller[c].invocations = MAX_RETRIES + 1
        /\ ~caller[c].result.ok
        /\ IsRateLimitError(caller[c].result.msg)

----------------------------------------------------------------------------
(* Debounced refresh: properties *)

\* C3: at most one refresh body is executing at any time, and a task that
\* found the executing flag set when its timer fired ended there: it never
\* held the guard, issued no upstream call and wrote to no cache.
C3_SingleFlight ==
    /\ Cardinality({t \in DOMAIN task : Executing(t)}) <= 1
    /\ \A t \in DOMAIN task :
          task[t].pc = "skipped" =>
              /\ ~task[t].started /\ ~task[t].guard
              /\ task[t].upstream = 0
              /\ ~task[t].mutated

\* a task was skipped while another body is still executing
C3_Witness ==
    \E t \in DOMAIN task, u \in DOMAIN task :
        task[t].pc = "skipped" /\ Executing(u) /\ u # t

C5_ExecutingNeverCancelled ==
    \A t \in DOMAIN task : ~(task[t].started /\ task[t].cancelled)

\* C6: the executing flag is set exactly while some task holds the guard
\* inside its body; after a body ended in any way (completion, panic, abort)
\* the flag is clear, so a task is skipped only behind a task that is still
\* holding the guard.
C6_GuardReleased ==
    /\ REFRESH_EXECUTING = (\E t \in DOMAIN task : Executing(t))
    /\ \A t \in DOMAIN task : Executing(t) = task[t].guard
    /\ \A t \in DOMAIN task : task[t].pc = "skipped" => task[t].blocked_by # 0

\* a body ended by abort or panic and a later task acquired the guard
C6_Witness ==
    \E t \in DOMAIN task, u \in DOMAIN task :
        /\ t < u
        /\ task[t].started
        /\ task[t].pc \in {"aborted", "panicked"}
        /\ Executing(u)

----------------------------------------------------------------------------
(* KlineStore: properties *)

Prices(k) == <<k.open, k.high, k.low, k.close>>

\* everything of a candle but its four prices
Rest(k) == <<k.timestamp, k.amount, k.balance, k.factor_a, k.factor_b, k.total>>

\* C7: every stored series is strictly ascending by timestamp.
C7_SeriesAscending ==
    \A key \in DOMAIN store :
        LET es == store[key].entries IN
        \A i \in 1..(Len(es) - 1) : es[i].timestamp < es[i + 1].timestamp

\* a series of several candles, one of them merged from a caller's batch
C7_Witness ==
    \E key \in DOMAIN store :
        LET es == store[key].entries IN
        /\ Len(es) >= 2
        /\ \E i \in 1..Len(es) : es[i] \notin UpstreamKlines

\* C8: applying any batch a second time changes neither the series nor the
\* has_more flag produced by its first application.
C8_UpdateIdempotent ==
    \A c \in Counters, kt \in Periods, a \in AdjustTypes, d \in Batches, m \in BOOLEAN :
        LET once == update(store, c, kt, a, d, m) IN
        update(once, c, kt, a, d, m) = once

\* the store is the result of applying a batch that repeats a timestamp with
\* two different candles
C8_Witness ==
    \E c \in Counters, kt \in Periods, a \in AdjustTypes, d \in Batches, m \in BOOLEAN :
        /\ Len(d) = 2 /\ d[1].timestamp = d[2].timestamp /\ d[1] # d[2]
        /\ StoreKey(c, kt, a) \in DOMAIN store
        /\ update(store, c, kt, a, d, m) = store

Returned(kline_type, adjust_type, e) ==
    IF FixForwardAdjust(kline_type, adjust_type) THEN Adjusted(e) ELSE e

\* a step that is a by_pagination call: the one recorded in returned
Read ==
    /\ returned'.called
    /\ ByPagination(returned'.counter, returned'.kline_type,
                    returned'.adjust_type, returned'.page, returned'.page_size)

\* pages q, q + 1, ..., last of a series as by_pagination returns them,
\* oldest page first
RECURSIVE PagesFrom(_, _, _, _, _, _, _)
PagesFrom(st, counter, kline_type, adjust_type, q, last, page_size) ==
    IF q > last THEN <<>>
    ELSE PagesFrom(st, counter, kline_type, adjust_type, q + 1, last, page_size)
            \o by_pagination(st, counter, kline_type, adjust_type, q, page_size)

\* C11: a by_pagination call on an existing series of length n returns the
\* candles at positions [max(0, n - (p+1)*s), n - p*s) in ascending order,
\* the empty page when p*s >= n, and pages 0..n of that size put end to end,
\* oldest first, are the whole series.
C11_PageWindow ==
    [][LET c == returned'.counter
           sr == <<returned'.kline_type, returned'.adjust_type>>
           p == returned'.page
           s == returned'.page_size
       IN
        (/\ Read
         /\ StoreKey(c, sr[1], sr[2]) \in DOMAIN store)
        => LET es == store[StoreKey(c, sr[1], sr[2])].entries
               n == Len(es)
               lo == IF n >= (p + 1) * s THEN n - (p + 1) * s ELSE 0
               hi == n - p * s
           IN /\ returned'.klines =
                    IF p * s >= n THEN <<>>
                    ELSE [i \in 1..(hi - lo) |-> Returned(sr[1], sr[2], es[lo + i])]
              /\ PagesFrom(store, c, sr[1], sr[2], 0, n, s)
                    = [i \in 1..n |-> Returned(sr[1], sr[2], es[i])]
      ]_vars

\* a call returned a page other than the most recent one, with candles in it
C11_Witness ==
    /\ returned.called
    /\ returned.page >= 1
    /\ returned.klines # <<>>

\* C12: a by_pagination call that finds no entry for the normalised key
\* returns the empty page, leaves the store unchanged and starts exactly one
\* fetch, for that symbol and period, of the (page + 1) * page_size most
\* recent candles.
C12_MissFetch ==
    [][LET c == returned'.counter
           sr == <<returned'.kline_type, returned'.adjust_type>>
           p == returned'.page
           s == returned'.page_size
       IN
        (/\ Read
         /\ StoreKey(c, sr[1], sr[2]) \notin DOMAIN store)
        => /\ returned'.klines = <<>>
           /\ store' = store
           /\ Len(pending') = Len(pending) + 1
           /\ SubSeq(pending', 1, Len(pending)) = pending
           /\ LET r == pending'[Len(pending')] IN
                 /\ StoreKey(r.counter, r.kline_type, r.adjust_type)
                        = StoreKey(c, sr[1], sr[2])
                 /\ r.count = (p + 1) * s
                 /\ Candlesticks(r.count)
                        = SubSeq(UpstreamHistory,
                                 IF Len(UpstreamHistory) > (p + 1) * s
                                 THEN Len(UpstreamHistory) - (p + 1) * s + 1 ELSE 1,
                                 Len(UpstreamHistory))
      ]_vars

\* a call for a page after the first found no entry, returned the empty page
\* and its fetch of more than one page of candles is in flight
C12_Witness ==
    /\ returned.called
    /\ returned.page >= 1
    /\ returned.klines = <<>>
    /\ StoreKey(returned.counter, returned.kline_type, returned.adjust_type)
           \notin DOMAIN store
    /\ \E i \in 1..Len(pending) :
          /\ pending[i].before = 0
          /\ pending[i].count = (returned.page + 1) * returned.page_size
          /\ pending[i].count > returned.page_size

C14_AnchoredFetch ==
    [][\A i \in 1..MaxPending :
        (/\ RequestOk(i)
         /\ pending[i].before > 0
         /\ \E j \in 1..Len(UpstreamHistory) :
               UpstreamHistory[j].timestamp < pending[i].before)
        => LET r == pending[i]
               es == store'[StoreKey(r.counter, r.kline_type, r.adjust_type)].entries
           IN \E j \in 1..Len(es) : es[j].timestamp < r.before
      ]_vars

\* a step in which the reader gets the handle of counter, by get or in mget
Got(counter) ==
    \/ Get(counter)
    \/ Mget(MgetCounters) /\ Head(MgetCounters) = counter
    \/ MgetNext /\ Head(reader.todo) = counter

\* the Stock a modify call read: the clone of the stored value or Stock::new
BaseOf(counter, base_id) ==
    IF base_id = NoHandle THEN StockNew(counter) ELSE arcs[base_id]

\* C15: a get of a symbol whose last write is insert(state) returns a
\* snapshot equal to state.
C15_GetAfterInsert ==
    [][\A c \in StockSymbols :
        (Got(c) /\ inserted[c] # NoStock)
        => /\ reader'.id[c] # NoHandle
           /\ arcs[reader'.id[c]] = inserted[c]
           /\ reader'.seen[c] = inserted[c]
      ]_vars

\* the reader holds the state of an insert that replaced another value of
\* the symbol
C15_Witness ==
    \E c \in StockSymbols :
        /\ inserted[c] # NoStock
        /\ reader.id[c] # NoHandle
        /\ reader.seen[c] = inserted[c]
        /\ \E j \in 1..(reader.id[c] - 1) :
              arcs[j].counter = c /\ arcs[j] # inserted[c]

\* C16: what is seen through a handle got by get or mget is what was seen
\* when it was acquired.
C16_HandleImmutable ==
    \A c \in StockSymbols :
        reader.id[c] # NoHandle => arcs[reader.id[c]] = reader.seen[c]

\* the reader holds a handle of a symbol that a later write gave another value
C16_Witness ==
    \E c \in StockSymbols :
        /\ reader.id[c] # NoHandle
        /\ c \in DOMAIN inner
        /\ inner[c] > reader.id[c]
        /\ arcs[inner[c]] # reader.seen[c]

C18_PartialMerge ==
    [][\A w \in Workers :
        ModifyWrite(w)
        => LET c == worker[w].counter
               q == worker[w].f.arg
               old == BaseOf(c, worker[w].base_id)
               new == arcs'[inner'[c]]
               carried == /\ new.quote.last_done = Some(q.last_done)
                          /\ new.quote.open = Some(q.open)
                          /\ new.quote.high = Some(q.high)
                          /\ new.quote.low = Some(q.low)
                          /\ new.quote.volume = q.volume
                          /\ new.quote.turnover = q.turnover
                          /\ new.quote.timestamp = q.timestamp
                          /\ new.trade_status = q.trade_status
               kept == /\ new.counter = old.counter
                       /\ new.name = old.name
                       /\ new.depth = old.depth
                       /\ new.trades = old.trades
                       /\ new.static_info = old.static_info
           IN /\ worker[w].f.kind = "push_quote"
                   => /\ carried /\ kept
                      /\ new.trade_session = q.trade_session
                      /\ new.quote.prev_close = old.quote.prev_close
              /\ worker[w].f.kind = "security_quote"
                   => /\ carried /\ kept
                      /\ new.quote.prev_close = Some(q.prev_close)
                      /\ new.trade_session = old.trade_session
      ]_vars

\* a push-quote update was merged into a stock whose prev_close was set
C18_Witness ==
    \E id \in 1..Len(arcs) :
        /\ origin[id].kind = "modify"
        /\ origin[id].f.kind = "push_quote"
        /\ origin[id].base_id # NoHandle
        /\ arcs[origin[id].base_id].quote.prev_close # NoDecimal
        /\ arcs[id].quote.prev_close = arcs[origin[id].base_id].quote.prev_close
        /\ arcs[id].quote.last_done = Some(PushQuote.last_done)

\* C19: of the acquire() calls made back to back from a full bucket, the
\* first max_tokens find a permit (none of them sleeps), and the call that
\* follows them returns at least wait_duration after the bucket was full.
C19_BurstThenWait ==
    [][\A c \in Callers :
        /\ (TryAcquireNoPermits(c) /\ full_burst.count > 0
                                    /\ full_burst.start = now)
               => full_burst.count >= max_tokens
        /\ (TryAcquireOk(c) /\ full_burst.count = max_tokens)
               => now >= full_burst.start + wait_duration
      ]_vars

\* the order of two symbols of the re-sorted watchlist: normal session
\* first, then market priority, then code ascending within a market
Ordered(sessions, a, b) ==
    LET a_normal == normal_trading(sessions, a)
        b_normal == normal_trading(sessions, b)
    IN /\ b_normal => a_normal
       /\ a_normal = b_normal
            => /\ market_priority(market(a)) <= market_priority(market(b))
               /\ market(a) = market(b) => StrCmp(code(a), code(b)) # "Greater"

\* C20: after Watchlist::refresh the symbols in their normal session come
\* first, symbols of the same session group are in the market order US, HK,
\* CN, SG, and symbols of the same market are in ascending order of code.
C20_WatchlistOrder ==
    [][WatchRefresh
        => \A i \in 1..Len(watchlist'.counters) :
             \A j \in (i + 1)..Len(watchlist'.counters) :
                Ordered(trade_sessions, watchlist'.counters[i],
                        watchlist'.counters[j])
      ]_vars

\* the bits a mark adds, and nothing else: every bit is set afterwards
\* exactly when it was set before or is one of added
AddsExactly(added) ==
    \A b \in Bits : b \in flags'.value <=> (b \in flags.value \/ b \in added)

\* C21: mark_quote_update adds the bits WATCHLIST, STOCK_DETAIL, INDEXES and
\* STATUS_BAR to the bits already set and changes no other bit;
\* mark_depth_update adds STOCK_DETAIL and DEPTH and changes no other bit.
C21_MarkBits ==
    [][/\ MarkQuoteUpdate
            => AddsExactly(WATCHLIST \cup STOCK_DETAIL \cup INDEXES \cup STATUS_BAR)
       /\ MarkDepthUpdate => AddsExactly(STOCK_DETAIL \cup DEPTH)
      ]_vars

\* mark_quote_update was applied to a value with the portfolio and depth
\* bits set: they are kept, the four bits are set and no other bit is
C21_Witness ==
    /\ flags.by = "mark_quote_update"
    /\ flags.value = PORTFOLIO \cup DEPTH \cup WATCHLIST \cup STOCK_DETAIL
                        \cup INDEXES \cup STATUS_BAR

\* C22: a render tick does exactly one of two things: with a dirty bit set,
\* one render pass that clears all bits and adds one to render_count; with
\* none set, a skip that adds one to skip_count.  After a tick no bit is set,
\* and render_count + skip_count is the number of ticks processed.
C22_TickRendersOrSkips ==
    [][/\ RenderTick =>
            /\ render_state'.dirty = NONE
            /\ IF render_state.dirty # NONE
               THEN /\ render_state'.render_count = render_state.render_count + 1
                    /\ render_state'.skip_count = render_state.skip_count
               ELSE /\ render_state'.render_count = render_state.render_count
                    /\ render_state'.skip_count = render_state.skip_count + 1
       /\ render_state'.render_count + render_state'.skip_count = ticks'
      ]_vars

\* ticks of both kinds were processed: a render pass after a push event that
\* marked part of the components, and a skip
C22_Witness ==
    /\ ticks = MaxTicks
    /\ render_state.render_count >= 2
    /\ render_state.skip_count >= 1
    /\ render_state.dirty = NONE
    /\ \E c \in DOMAIN stocks : stocks[c].quote_pushed

\* C23: every step that changes MarketDataCache (STOCKS) or HistoryCache
\* (KLINES), by a push event, a step of the refresh body or a candle fetch,
\* leaves a dirty bit set, so that the next tick renders.
C23_MutationMarksDirty ==
    [][(stocks' # stocks \/ store' # store) => render_state'.dirty # NONE]_vars

\* task t issued an upstream call in this step (subscribe, quote, static
\* info or trades)
IssuedUpstream(t) ==
    /\ t \in DOMAIN task
    /\ task'[t].upstream > task[t].upstream

\* C24: every upstream call of the single-symbol refresh body (the two
\* subscribes, the quote fetch, the static-info fetch, the trades fetch) is
\* made through RateLimiter.execute: the step that issues it takes one token
\* from the process-wide limiter.
C24_UpstreamViaLimiter ==
    [][\A t \in TaskIds : IssuedUpstream(t) => semaphore' = semaphore - 1]_vars

\* the static info of counter is not in the cache stks: the condition under
\* which the body is to fetch it
StaticInfoMissing(stks, counter) ==
    counter \notin DOMAIN stks \/ ~stks[counter].static_info

\* the step the body attempts after the step at pc has returned, whatever
\* the step returned
StepAfter(pc, stks, counter) ==
    CASE pc = "await_detail" -> "await_trade"
      [] pc = "await_trade" -> "await_quote"
      [] pc = "await_quote" -> IF StaticInfoMissing(stks, counter)
                               THEN "await_static" ELSE "await_trades"
      [] pc = "await_static" -> "await_trades"
      [] pc = "await_trades" -> "done"

\* C25: in the single-symbol refresh body the failure of a step does not
\* prevent a later step: when a step returns, with a result or a failure,
\* the body goes on to the next step (subscribe, subscribe, quote, static
\* info when it is not cached, trades), and only an abort ends it early.
C25_FailureDoesNotSkip ==
    [][\A t \in TaskIds :
          (/\ Executing(t)
           /\ task'[t].pc # task[t].pc
           /\ task'[t].pc # "aborted")
          => task'[t].pc = StepAfter(task[t].pc, stocks', task[t].counter)
      ]_vars

\* C26: a failed upstream call of a refresh leaves the MarketDataCache at
\* its last value: a failed quote, static-info or trades fetch, of the
\* single-symbol refresh or of the watchlist refresh, changes no entry of
\* STOCKS, and a failed watchlist group-list fetch changes neither the
\* stored symbol order, nor the group list, nor any entry of STOCKS.
C26_FailureKeepsCache ==
    [][/\ (\E t \in TaskIds : \/ QuoteReturns(t, "err")
                              \/ StaticInfoReturns(t, "err")
                              \/ TradesReturns(t, "err"))
            => stocks' = stocks
       /\ (InitialQuotesReturn("err") \/ StaticInfosReturn("err"))
            => /\ stocks' = stocks
               /\ watchlist' = watchlist
       /\ (wl_task.pc = "await_watchlist" /\ wl_task'.pc = "failed")
            => /\ watchlist' = watchlist
               /\ stocks' = stocks
               /\ trade_sessions' = trade_sessions
      ]_vars

\* the group-list fetch of a second watchlist refresh failed: the symbols,
\* the groups, the quotes and the static infos of the first one are there
C26_Witness ==
    /\ wl_task.pc = "failed"
    /\ wl_task.sent = 1
    /\ watchlist.counters # <<>>
    /\ watchlist.groups # <<>>
    /\ \E c \in WatchSymbols :
          as_str[c] \in DOMAIN stocks /\ stocks[as_str[c]].quote_pulled
    /\ \E c \in WatchSymbols :
          as_str[c] \in DOMAIN stocks /\ stocks[as_str[c]].static_info

\* C27: under every interleaving of concurrent acquire() calls and refills
\* the number of available tokens is between 0 and max_tokens: a refill
\* never raises it above max_tokens, and only the add_permits of a refill
\* raises it; the return of acquire() does not give the token back.
C27_TokensBounded ==
    [][/\ 0 <= semaphore /\ semaphore <= max_tokens
       /\ 0 <= semaphore' /\ semaphore' <= max_tokens
       /\ semaphore' > semaphore => \E c \in Callers : RefillAdd(c)
       /\ (\E c \in Callers : caller[c].pc # "done" /\ caller'[c].pc = "done")
            => semaphore' = semaphore - 1
      ]_vars

\* concurrent acquire() calls emptied the bucket, and the refill of a later
\* call, which has not taken its token yet, has filled it up to max_tokens
C27_Witness ==
    /\ semaphore = max_tokens
    /\ last_refill > 0
    /\ \E t \in Times : acquired_at[t] >= max_tokens
    /\ \E c \in Callers : caller[c].pc = "try"
    /\ \E c \in Callers : caller[c].pc = "done"

\* C28: inside execute every invocation of the operation, the first and each
\* retry, comes after an acquire() of its own that took one token, so a call
\* that invoked the operation k times has taken k tokens; and the sleeps
\* between a rate-limit failure and the next attempt are 1s, 2s and 4s, in
\* that order.
C28_TokenPerInvocation ==
    [][\A c \in Callers :
          LET cc == caller[c]
              nc == caller'[c]
          IN nc.in_execute =>
               /\ (cc.pc # "invoke" /\ nc.pc = "invoke")
                    => /\ semaphore' = semaphore - 1
                       /\ nc.tokens_taken = nc.invocations + 1
               /\ (cc.pc = "invoke" /\ nc.pc # "invoke")
                    => /\ nc.invocations = cc.invocations + 1
                       /\ nc.tokens_taken = nc.invocations
               /\ nc.pc = "done" => nc.tokens_taken = nc.invocations
               /\ (cc.pc = "invoke" /\ nc.pc = "sleep")
                    => /\ nc.waits = SubSeq(<<1, 2, 4>>, 1, nc.retry_count)
                       /\ nc.wake = now + nc.waits[nc.retry_count] * TicksPerSecond
      ]_vars

\* an execute call that invoked the operation four times, after sleeps of
\* 1s, 2s and 4s, and took four tokens
C28_Witness ==
    \E c \in Callers :
        /\ caller[c].in_execute
        /\ caller[c].pc = "done"
        /\ caller[c].invocations = 4
        /\ caller[c].tokens_taken = 4
        /\ caller[c].waits = <<1, 2, 4>>

\* the candles of a sequence, as a set
Candles(entries) == {entries[i] : i \in 1..Len(entries)}

\* the last candle of the batch for each timestamp that occurs in it
LastOfTimestamp(data) ==
    {data[j] : j \in {i \in 1..Len(data) :
                        \A k \in (i + 1)..Len(data) :
                            data[k].timestamp # data[i].timestamp}}

\* C29: update(key, batch, has_more) leaves in the key's series exactly the
\* stored candles whose timestamp does not occur in the batch, unchanged,
\* and for each timestamp of the batch the last batch candle with it; the
\* stored flag becomes has_more and every other key keeps its entry.
C29_UpdateEffect ==
    \A c \in Counters, kt \in Periods, a \in AdjustTypes, d \in Batches, m \in BOOLEAN :
        LET key == StoreKey(c, kt, a)
            old == IF key \in DOMAIN store THEN store[key].entries ELSE <<>>
            new == update(store, c, kt, a, d, m)
            batch_ts == {d[i].timestamp : i \in 1..Len(d)}
            kept == {e \in Candles(old) : e.timestamp \notin batch_ts}
        IN /\ DOMAIN new = DOMAIN store \cup {key}
           /\ Candles(new[key].entries) = kept \cup LastOfTimestamp(d)
           /\ Len(new[key].entries) = Cardinality(kept \cup LastOfTimestamp(d))
           /\ new[key].has_more = m
           /\ \A k \in DOMAIN store : k # key => new[k] = store[k]

\* the store after updates of two keys: the daily series kept a stored
\* candle, took the last of two batch candles of one timestamp in place of
\* the stored one and has the flag false, next to a weekly series
C29_Witness ==
    /\ <<"AAPL.US", PerWeek, ForwardAdjust>> \in DOMAIN store
    /\ <<"AAPL.US", PerDay, NoAdjust>> \in DOMAIN store
    /\ LET e == store[<<"AAPL.US", PerDay, NoAdjust>>]
           d == <<MkKline(1, 2, 1, 0), MkKline(1, 3, 2, 1)>>
       IN /\ ~e.has_more
          /\ e.entries = <<MkKline(1, 3, 2, 1), MkKline(2, 2, 1, 0)>>
          /\ update(store, "AAPL.US", PerDay, NoAdjust, d, FALSE) = store

C31_FetchUnadjusted ==
    [][\A i \in 1..MaxPending :
          (RequestOk(i) /\ pending[i].kline_type <= PerDay)
            => upstream_adjust(pending[i].adjust_type) = NoAdjust
      ]_vars

\* the step in which the body of task t starts: guard acquired, KLINES.clear()
BodyStarts(t) ==
    /\ t \in DOMAIN task
    /\ task[t].pc = "sleep"
    /\ task'[t].started

\* C32 as stated: the first step of a single-symbol refresh for symbol S
\* removes the HistoryCache entries of S only: the series and the has_more
\* flag of every other symbol are as before.
C32_ClearsOwnSymbol ==
    [][\A t \in TaskIds :
          BodyStarts(t)
          => \A key \in DOMAIN store :
                key[1] # task[t].counter
                    => key \in DOMAIN store' /\ store'[key] = store[key]
      ]_vars

\* C32 amended: the first step of a single-symbol refresh for symbol S
\* removes every HistoryCache entry, those of S and those of every other
\* symbol: the cache is empty after it.
C32_ClearsWholesale ==
    [][\A t \in TaskIds : BodyStarts(t) => store' = EmptyStore]_vars

\* a body has started for one symbol while KLINES held a series of another
C32_Witness ==
    \E t \in DOMAIN task :
        /\ task[t].started
        /\ \E key \in task[t].cleared : key[1] # task[t].counter

\* C33: in a single-symbol refresh for S the static-info fetch is issued
\* exactly when S has no cached static info after the quote step: skipped
\* when it is cached, issued when it is not, also when S has no entry in
\* STOCKS because the quote fetch failed.
C33_StaticInfoIffMissing ==
    [][\A t \in TaskIds :
          (/\ Executing(t)
           /\ task[t].pc = "await_quote"
           /\ task'[t].pc \in {"await_static", "await_trades"})
          => (task'[t].pc = "await_static"
                <=> StaticInfoMissing(stocks', task[t].counter))
      ]_vars


\* the entry of counter holds nothing but what Stock::new gives it
IsPlaceholder(stks, counter) == counter \in DOMAIN stks /\ stks[counter] = NewStock

\* C34: a step of the placeholder loop never replaces the data of an entry
\* STOCKS already holds with an empty placeholder, a push between its read
\* and its write included, and when the loop is left every symbol of the
\* merged list has an entry.
C34_PlaceholderOnlyFillsAbsent ==
    [][/\ \A c \in DOMAIN stocks :
             (\E d \in DefaultSessions : PlaceholderInsert(d))
                 /\ ~IsPlaceholder(stocks, c) => stocks'[c] = stocks[c]
       /\ (wl_task.pc \in {"placeholder_get", "placeholder_insert"}
               /\ wl_task'.pc = "await_quotes")
           => \A k \in 1..Len(wl_task.counters) :
                  as_str[wl_task.counters[k]] \in DOMAIN stocks']_vars


\* the spawned refresh_watchlist task is between its first and its last step
WatchlistRefreshRuns ==
    wl_task.pc \in {"await_watchlist", "placeholder_get", "placeholder_insert",
                    "await_quotes", "await_static_infos", "await_remount"}

\* C35: the executing flag also covers the watchlist refresh: the body of a
\* single-symbol refresh and a watchlist refresh never run at the same time.
C35_BodiesExclusive ==
    ~(WatchlistRefreshRuns /\ \E t \in TaskIds : Executing(t))


\* the debounced task t is scheduled and sleeps in its delay: it was not
\* aborted and has not started
Pending(t) == t \in DOMAIN task /\ task[t].pc = "sleep" /\ ~task[t].cancelled

\* C36: at every moment at most one debounced task is pending, and it is the
\* task whose handle REFRESH_STOCK_TASK holds.
C36_OnePending ==
    \A t, u \in TaskIds : Pending(t) /\ Pending(u) => t = u /\ t = REFRESH_STOCK_TASK

\* a second call arrived within the delay of the first: the first task was
\* aborted in its sleep and the second is the pending one
C36_Witness ==
    /\ Len(task) = 2
    /\ task[1].pc = "sleep" /\ task[1].cancelled
    /\ Pending(2) /\ task[2].timer < DebounceTicks


\* C37: when the calls stop after the n-th one, the body of task n starts and
\* runs to completion, and from then on no task is pending and the executing
\* flag is false.
C37_LastCallRefreshed ==
    \A n \in TaskIds :
        <>[](next_task = n)
            => <>[](/\ n \in DOMAIN task
                    /\ task[n].pc = "done"
                    /\ ~REFRESH_EXECUTING
                    /\ \A t \in TaskIds : ~Pending(t))


\* the series of the key is stored, upstream holds candles older than its
\* first one, and the page reaches before its start
ExtendsBeforeStored(counter, kline_type, adjust_type, page, page_size) ==
    LET key == StoreKey(counter, kline_type, adjust_type) IN
    /\ key \in DOMAIN store
    /\ store[key].entries # <<>>
    /\ UpstreamHistory[1].timestamp < store[key].entries[1].timestamp
    /\ (page + 1) * page_size > Len(store[key].entries)

\* the last read was of this page and returned candles
ReturnedNonEmpty(counter, kline_type, adjust_type, page, page_size) ==
    /\ returned.called
    /\ returned.counter = counter /\ returned.kline_type = kline_type
    /\ returned.adjust_type = adjust_type
    /\ returned.page = page /\ returned.page_size = page_size
    /\ returned.klines # <<>>

\* C38: a caller that keeps polling by_pagination for a page that reaches
\* before the start of the stored series, while upstream holds older candles
\* and the fetches succeed, is eventually returned that page non-empty.
C38_PollingReachesPast ==
    \A c \in Counters, sr \in Series, p \in 0..MaxPage, ps \in 1..MaxPageSize :
        []<><<ByPagination(c, sr[1], sr[2], p, ps)>>_vars
            => [](ExtendsBeforeStored(c, sr[1], sr[2], p, ps)
                    => <>ReturnedNonEmpty(c, sr[1], sr[2], p, ps))


\* C39: every acquire() call returns: RateLimiter::new floors a rate or a
\* capacity of 0 to 1, each of finitely many calls of concurrent callers
\* obtains its token as time advances, and while a caller waits the bucket
\* does not stay empty.
C39_AcquireReturns ==
    /\ [](\A a, b \in 0..MaxArg :
             /\ RateLimiter_new(a, b).tokens_per_second >= 1
             /\ RateLimiter_new(a, b).max_tokens >= 1
             /\ a >= 1 => RateLimiter_new(a, b).tokens_per_second = a
             /\ b >= 1 => RateLimiter_new(a, b).max_tokens = b)
    /\ \A c \in Callers :
          (caller[c].pc \notin {"idle", "done"}) ~> (caller[c].pc = "done")
    /\ (\E c \in Callers : caller[c].pc = "sleep") ~> (semaphore > 0)

\* more acquire() calls have returned than the bucket held at the start: one
\* of them found the bucket empty, slept and was served by a refill
C39_Witness ==
    /\ SumAcquired(0, MaxTime) > max_tokens
    /\ \A c \in Callers : caller[c].pc \in {"idle", "done"}
    /\ last_refill < 0


\* C40: after the clear() of a view exit the store holds no entry until a
\* by_pagination call made after the clear has started a fetch: a fetch that
\* was in flight when clear() ran does not insert its series.
C40_NoEntryUntilRead == ~returned.called => store = EmptyStore

====
